---------------------------- MODULE Spec2Model ----------------------------
(***************************************************************************)
(* A model of libsmack (src/libsmack/libsmack.c): the label table, the     *)
(* access-code codec, the rule store with its text loader and its          *)
(* serialisation (save / apply / clear), and the CIPSO text loader.        *)
(*                                                                         *)
(* C strings are sequences of one-character strings, so that validation,   *)
(* hashing, tokenising and formatting are computed character by character  *)
(* as the code computes them.  A NULL char pointer is the value NULL.      *)
(*                                                                         *)
(* calloc/malloc/realloc, dup and fdopen are taken to succeed.             *)
(***************************************************************************)
EXTENDS Integers, Sequences, FiniteSets, Bags, TLC

(***************************************************************************)
(* Program constants                                                       *)
(***************************************************************************)
SMACK_LABEL_LEN == 255
SHORT_LABEL_LEN == 23
ACC_LEN == 6
LOAD_LEN == 2 * (SMACK_LABEL_LEN + 1) + 2 * ACC_LEN + 1
LEVEL_MAX == 255
NUM_LEN == 4
BUF_SIZE == 512
CAT_MAX_COUNT == 240
CAT_MAX_VALUE == 63
ACCESS_TYPE_R == 1
ACCESS_TYPE_W == 2
ACCESS_TYPE_X == 4
ACCESS_TYPE_A == 8
ACCESS_TYPE_T == 16
ACCESS_TYPE_L == 32
ACCESS_TYPE_ALL == (2 ^ ACC_LEN) - 1
DICT_HASH_SIZE == 4096
MAX_LABELS_CNT == 65535 + 1
LABELS_ALLOC_INIT == 128
DJB2_SEED == 5381

\* The null pointer, as a char pointer and as a label pointer / list link.
NULL == <<"(null)">>
NIL == -1

(***************************************************************************)
(* Characters                                                              *)
(***************************************************************************)
\* The printable ASCII characters, space (32) to tilde (126), in code order.
\* The grave accent (96) is written "GRAVE": the lexer does not take it in a
\* string.
Printable ==
  << " ", "!", "\"", "#", "$", "%", "&", "'", "(", ")", "*", "+",
     ",", "-", ".", "/", "0", "1", "2", "3", "4", "5", "6", "7",
     "8", "9", ":", ";", "<", "=", ">", "?", "@", "A", "B", "C",
     "D", "E", "F", "G", "H", "I", "J", "K", "L", "M", "N", "O",
     "P", "Q", "R", "S", "T", "U", "V", "W", "X", "Y", "Z", "[",
     "\\", "]", "^", "_", "GRAVE", "a", "b", "c", "d", "e", "f", "g",
     "h", "i", "j", "k", "l", "m", "n", "o", "p", "q", "r", "s",
     "t", "u", "v", "w", "x", "y", "z", "{", "|", "}", "~" >>

\* The code of a character; tab and newline are the control characters used, and
\* any other character stands for a byte above the tilde.
CodeTable ==
  [c \in {Printable[i] : i \in 1..Len(Printable)} \cup {"\t", "\n"} |->
     IF c = "\t" THEN 9
     ELSE IF c = "\n" THEN 10
     ELSE 31 + (CHOOSE i \in 1..Len(Printable) : Printable[i] = c)]
CharCode(c) == IF c \in DOMAIN CodeTable THEN CodeTable[c] ELSE 127

Min(a, b) == IF a < b THEN a ELSE b

\* value & bit # 0, for a single-bit mask
HasBit(code, bit) == (code \div bit) % 2 = 1
\* value | bit, for a single-bit mask
OrBit(code, bit) == IF HasBit(code, bit) THEN code ELSE code + bit
\* The access bits in the order access_code_to_str prints them.
AccessBits ==
  << ACCESS_TYPE_R, ACCESS_TYPE_W, ACCESS_TYPE_X,
     ACCESS_TYPE_A, ACCESS_TYPE_T, ACCESS_TYPE_L >>
\* a | b over the access bits
BitOr(a, b) ==
  LET v[i \in 0..ACC_LEN] ==
        IF i = 0 THEN 0
        ELSE v[i - 1] + (IF HasBit(a, AccessBits[i]) \/ HasBit(b, AccessBits[i])
                           THEN AccessBits[i] ELSE 0)
  IN  v[ACC_LEN]
\* mask & ~a over the access bits
BitAndNot(mask, a) ==
  LET v[i \in 0..ACC_LEN] ==
        IF i = 0 THEN 0
        ELSE v[i - 1] + (IF HasBit(mask, AccessBits[i]) /\ ~HasBit(a, AccessBits[i])
                           THEN AccessBits[i] ELSE 0)
  IN  v[ACC_LEN]

(***************************************************************************)
(* get_label: validation, copy and DJB2 hash of a label                    *)
(***************************************************************************)
\* h = (h << 5) + h + src[i] over src[lo..hi].  The code keeps h in 32 bits
\* and reduces it modulo DICT_HASH_SIZE at the end; DICT_HASH_SIZE divides
\* 2^32, so reducing at every step yields the same bucket.
RECURSIVE Djb2(_, _, _, _)
Djb2(src, lo, hi, h) ==
  IF lo > hi THEN h
  ELSE IF lo = hi THEN (h * 32 + h + CharCode(src[lo])) % DICT_HASH_SIZE
  ELSE LET mid == (lo + hi) \div 2
       IN  Djb2(src, mid + 1, hi, Djb2(src, lo, mid, h))

BadLabelChar(c) ==
  \/ CharCode(c) <= CodeTable[" "]
  \/ CharCode(c) > CodeTable["~"]
  \/ c \in {"/", "\"", "\\", "'"}

\* [ret, dest, hash]: ret is the label's length or -1; dest the bytes copied
\* (meaningful when ret >= 0); hash the bucket (when ret >= 0).
get_label(src) ==
  IF src = NULL \/ Len(src) = 0 \/ src[1] = "-"
    THEN [ret |-> -1, dest |-> <<>>, hash |-> 0]
  ELSE LET n == Min(Len(src), SMACK_LABEL_LEN + 1)
       IN  IF \E i \in 1..n : BadLabelChar(src[i])
             THEN [ret |-> -1, dest |-> <<>>, hash |-> 0]
           ELSE [ret  |-> IF n < SMACK_LABEL_LEN + 1 THEN n ELSE -1,
                 dest |-> SubSeq(src, 1, n),
                 hash |-> Djb2(src, 1, n, DJB2_SEED) % DICT_HASH_SIZE]

(***************************************************************************)
(* The access-code codec                                                   *)
(***************************************************************************)
\* The bit a character of an access string stands for; 0 for '-', -1 for a
\* character the switch rejects.
\* The switch of lines 816-846 without its upper-case labels
AccessCharBit_lower(c) ==
  CASE c = "r" -> ACCESS_TYPE_R
    [] c = "w" -> ACCESS_TYPE_W
    [] c = "x" -> ACCESS_TYPE_X
    [] c = "a" -> ACCESS_TYPE_A
    [] c = "t" -> ACCESS_TYPE_T
    [] c = "l" -> ACCESS_TYPE_L
    [] c = "-" -> 0
    [] OTHER -> -1

AccessCharBit(c) ==
  CASE c \in {"r", "R"} -> ACCESS_TYPE_R
    [] c \in {"w", "W"} -> ACCESS_TYPE_W
    [] c \in {"x", "X"} -> ACCESS_TYPE_X
    [] c \in {"a", "A"} -> ACCESS_TYPE_A
    [] c \in {"t", "T"} -> ACCESS_TYPE_T
    [] c \in {"l", "L"} -> ACCESS_TYPE_L
    [] c = "-" -> 0
    [] OTHER -> -1

str_to_access_code(str) ==
  IF \E i \in 1..Len(str) : AccessCharBit(str[i]) = -1 THEN -1
  ELSE LET code[i \in 0..Len(str)] ==
             IF i = 0 THEN 0
             ELSE IF AccessCharBit(str[i]) = 0 THEN code[i - 1]
             ELSE OrBit(code[i - 1], AccessCharBit(str[i]))
       IN  code[Len(str)]

access_code_to_str(code) ==
  << IF HasBit(code, ACCESS_TYPE_R) THEN "r" ELSE "-",
     IF HasBit(code, ACCESS_TYPE_W) THEN "w" ELSE "-",
     IF HasBit(code, ACCESS_TYPE_X) THEN "x" ELSE "-",
     IF HasBit(code, ACCESS_TYPE_A) THEN "a" ELSE "-",
     IF HasBit(code, ACCESS_TYPE_T) THEN "t" ELSE "-",
     IF HasBit(code, ACCESS_TYPE_L) THEN "l" ELSE "-" >>

(***************************************************************************)
(* The label table (struct smack_accesses, struct smack_label)             *)
(*                                                                         *)
(* handle.labels is the id -> label array (labels[id] is at index id + 1), *)
(* handle.label_hash maps each bucket in use to its chain [first, last];   *)
(* a bucket not in its domain is the zeroed entry calloc left.  A label    *)
(* pointer is the label id, NIL for NULL.  The rule list of a label        *)
(* (first_rule / last_rule / next_rule) is the sequence rules.             *)
(***************************************************************************)
smack_accesses_new ==
  [has_long     |-> 0,
   labels_cnt   |-> 0,
   labels_alloc |-> LABELS_ALLOC_INIT,
   labels       |-> <<>>,
   label_hash   |-> <<>>]

LabelAt(handle, id) == handle.labels[id + 1]

RECURSIVE ChainFind(_, _, _)
ChainFind(handle, label, lab) ==
  IF lab = NIL THEN NIL
  ELSE IF LabelAt(handle, lab).label = label THEN lab
  ELSE ChainFind(handle, label, LabelAt(handle, lab).next_label)

\* is_label_known without the strcmp of line 866: the head of the chain
is_label_known_any(handle, label, hash) ==
  IF hash \in DOMAIN handle.label_hash
    THEN handle.label_hash[hash].first
    ELSE NIL

is_label_known(handle, label, hash) ==
  IF hash \in DOMAIN handle.label_hash
    THEN ChainFind(handle, label, handle.label_hash[hash].first)
    ELSE NIL

\* A new label entry is linked into its bucket and stored in the array
\* (lines 888-920); old is the last label of the bucket's chain, NIL for an
\* empty bucket.
label_new(handle, label, g, old) ==
  LET new_label == [len        |-> g.ret % (2 ^ 8),
                    id         |-> handle.labels_cnt % (2 ^ 16),
                    label      |-> SubSeq(label, 1, g.ret),
                    rules      |-> <<>>,
                    next_label |-> NIL]
      alloc == IF handle.labels_cnt = handle.labels_alloc
                 THEN handle.labels_alloc * 2 ELSE handle.labels_alloc
      linked == IF old = NIL THEN handle.labels
                ELSE [handle.labels EXCEPT ![old + 1].next_label = handle.labels_cnt]
      hash_entry == IF old = NIL
                      THEN [first |-> handle.labels_cnt, last |-> handle.labels_cnt]
                      ELSE [first |-> handle.label_hash[g.hash].first,
                            last  |-> handle.labels_cnt]
  IN  [lab    |-> handle.labels_cnt,
       handle |-> [handle EXCEPT
                     !.labels_alloc = alloc,
                     !.labels = Append(linked, new_label),
                     !.labels_cnt = handle.labels_cnt + 1,
                     !.label_hash =
                        [h \in DOMAIN handle.label_hash \cup {g.hash} |->
                           IF h = g.hash THEN hash_entry
                           ELSE handle.label_hash[h]]]]

\* label_add from line 886 on: known is what is_label_known returned
label_lookup(handle, label, g, known) ==
  IF known # NIL THEN [lab |-> known, handle |-> handle]
  ELSE label_new(handle, label, g,
                 IF g.hash \in DOMAIN handle.label_hash
                   THEN handle.label_hash[g.hash].last ELSE NIL)

\* label_add from line 883 on: g is what get_label returned
label_checked(handle, label, g) ==
  IF g.ret = -1 THEN [lab |-> NIL, handle |-> handle]
  ELSE label_lookup(handle, label, g, is_label_known(handle, label, g.hash))

\* label_add with the test of line 879 made after the lookup of line 886,
\* for a new label only
label_add_known_first(handle, label) ==
  IF get_label(label).ret # -1
     /\ is_label_known(handle, label, get_label(label).hash) # NIL
    THEN [lab |-> is_label_known(handle, label, get_label(label).hash),
          handle |-> handle]
  ELSE IF handle.labels_cnt = MAX_LABELS_CNT THEN [lab |-> NIL, handle |-> handle]
  ELSE label_checked(handle, label, get_label(label))

\* [lab, handle]: the label interned (NIL on failure) and the table after.
label_add(handle, label) ==
  IF handle.labels_cnt = MAX_LABELS_CNT THEN [lab |-> NIL, handle |-> handle]
  ELSE label_checked(handle, label, get_label(label))

(***************************************************************************)
(* accesses_add, smack_accesses_add, smack_accesses_add_modify             *)
(* Each returns [ret, handle].                                             *)
(***************************************************************************)
\* lines 206-208 with the test of the subject's length alone
LongCheck_subject(has_long, slen, olen) ==
  IF slen > SHORT_LABEL_LEN THEN 1 ELSE has_long

\* has_long after the test of the two label lengths
LongCheck(has_long, slen, olen) ==
  IF slen > SHORT_LABEL_LEN \/ olen > SHORT_LABEL_LEN THEN 1 ELSE has_long

\* line 221 without the complement
DefaultDeny_none(allow_code) == 0

\* deny_code of a rule added without a deny string
DefaultDeny(allow_code) == BitAndNot(ACCESS_TYPE_ALL, allow_code)

\* lines 223-230 with the rule linked at the head of the subject's list
accesses_add_link_front(handle, slab, olab, allow_code, deny_code) ==
  IF deny_code = -1 THEN [ret |-> -1, handle |-> handle]
  ELSE [ret    |-> 0,
        handle |-> [handle EXCEPT
                      !.labels[slab + 1].rules =
                         << [allow_code |-> allow_code,
                             deny_code  |-> deny_code,
                             object_id  |-> LabelAt(handle, olab).id] >> \o @]]

\* lines 223-230: the rule is appended to the subject's list
accesses_add_link(handle, slab, olab, allow_code, deny_code) ==
  IF deny_code = -1 THEN [ret |-> -1, handle |-> handle]
  ELSE [ret    |-> 0,
        handle |-> [handle EXCEPT
                      !.labels[slab + 1].rules =
                         Append(@, [allow_code |-> allow_code,
                                    deny_code  |-> deny_code,
                                    object_id  |-> LabelAt(handle, olab).id])]]

\* lines 212-221: the access strings are parsed
accesses_add_codes(handle, slab, olab, allow_code, deny_access_type) ==
  IF allow_code = -1 THEN [ret |-> -1, handle |-> handle]
  ELSE accesses_add_link(handle, slab, olab, allow_code,
         IF deny_access_type # NULL
           THEN str_to_access_code(deny_access_type)
           ELSE DefaultDeny(allow_code))

\* lines 203-210: o is what label_add returned for the object
accesses_add_object(slab, o, allow_access_type, deny_access_type) ==
  IF o.lab = NIL THEN [ret |-> -1, handle |-> o.handle]
  ELSE accesses_add_codes(
         [o.handle EXCEPT
            !.has_long = LongCheck(@, LabelAt(o.handle, slab).len,
                                   LabelAt(o.handle, o.lab).len)],
         slab, o.lab, str_to_access_code(allow_access_type), deny_access_type)

\* lines 200-202: s is what label_add returned for the subject
accesses_add_subject(s, object, allow_access_type, deny_access_type) ==
  IF s.lab = NIL THEN [ret |-> -1, handle |-> s.handle]
  ELSE accesses_add_object(s.lab, label_add(s.handle, object),
                           allow_access_type, deny_access_type)

accesses_add(handle, subject, object, allow_access_type, deny_access_type) ==
  accesses_add_subject(label_add(handle, subject), object,
                       allow_access_type, deny_access_type)

smack_accesses_add(handle, subject, object, access_type) ==
  accesses_add(handle, subject, object, access_type, NULL)

smack_accesses_add_modify(handle, subject, object, allow, deny) ==
  accesses_add(handle, subject, object, allow, deny)

(***************************************************************************)
(* Serialisation: accesses_print and the write loop                        *)
(*                                                                         *)
(* The destination is described by a record io:                            *)
(*   chunk   the most bytes one write call accepts (0: all it is given)    *)
(*   eintr   1 when the first write call for each record is interrupted    *)
(*   fail_at the number of the write call (counted over the whole          *)
(*           accesses_print call) that fails with an errno other than     *)
(*           EINTR; 0 when no call fails                                   *)
(* A write is recorded as [fd, bytes]: the bytes the descriptor accepted   *)
(* during one run of the write loop.                                       *)
(***************************************************************************)
Repeat(c, n) == [i \in 1..n |-> c]

\* snprintf conversions: %s, %-Ns and %N.Ns
FmtS(str) == str
FmtLeft(str, width) ==
  IF Len(str) >= width THEN str ELSE str \o Repeat(" ", width - Len(str))
FmtPrec(str, width, prec) ==
  LET cut == SubSeq(str, 1, Min(Len(str), prec))
  IN  IF Len(cut) >= width THEN cut ELSE Repeat(" ", width - Len(cut)) \o cut

KERNEL_LONG_FORMAT(subject, object, access) ==
  FmtS(subject) \o <<" ">> \o FmtS(object) \o <<" ">> \o FmtS(access)
\* the short layout with the access field printed as %6.6s
KERNEL_SHORT_FORMAT_six(subject, object, access) ==
  FmtLeft(subject, SHORT_LABEL_LEN) \o <<" ">> \o
  FmtLeft(object, SHORT_LABEL_LEN) \o <<" ">> \o FmtPrec(access, 6, 6)
KERNEL_SHORT_FORMAT(subject, object, access) ==
  FmtLeft(subject, SHORT_LABEL_LEN) \o <<" ">> \o
  FmtLeft(object, SHORT_LABEL_LEN) \o <<" ">> \o FmtPrec(access, 5, 5)
KERNEL_MODIFY_FORMAT(subject, object, allow, deny) ==
  FmtS(subject) \o <<" ">> \o FmtS(object) \o <<" ">> \o
  FmtS(allow) \o <<" ">> \o FmtS(deny)

\* snprintf(buf, size, ...): [buf, cnt], buf cut to size - 1 characters and
\* cnt the length of the whole text
snprintf(size, text) ==
  [buf |-> SubSeq(text, 1, Min(Len(text), size - 1)), cnt |-> Len(text)]

\* The rule tested at line 728
IsModifyRule(rule) ==
  BitOr(rule.allow_code, rule.deny_code) # ACCESS_TYPE_ALL

\* line 726 without the test of clear
PrintedAllow_kept(rule, clear) == rule.allow_code

\* The allow code printed for a rule
PrintedAllow(rule, clear) == IF clear = 1 THEN 0 ELSE rule.allow_code

\* The write loop without the test of errno of line 760: an interrupted
\* write ends the record as any other error does
RECURSIVE WriteLoop_eintr(_, _, _, _, _, _, _)
WriteLoop_eintr(buf, cnt, i, io, calls, first, acc) ==
  IF i >= cnt THEN [ok |-> TRUE, bytes |-> acc, calls |-> calls]
  ELSE IF calls + 1 = io.fail_at \/ (first /\ io.eintr = 1)
    THEN [ok |-> FALSE, bytes |-> acc, calls |-> calls + 1]
  ELSE WriteLoop_eintr(buf, cnt,
                       IF io.chunk = 0 THEN cnt ELSE Min(i + io.chunk, cnt),
                       io, calls + 1, FALSE,
                       acc \o SubSeq(buf, i + 1,
                                     IF io.chunk = 0 THEN cnt ELSE Min(i + io.chunk, cnt)))

\* The write loop of lines 757-765 for one record, from offset i (0-based):
\* [ok, bytes, calls], calls being the write calls made so far in the whole
\* accesses_print call.
RECURSIVE WriteLoop(_, _, _, _, _, _, _)
WriteLoop(buf, cnt, i, io, calls, first, acc) ==
  IF i >= cnt THEN [ok |-> TRUE, bytes |-> acc, calls |-> calls]
  ELSE IF calls + 1 = io.fail_at
    THEN [ok |-> FALSE, bytes |-> acc, calls |-> calls + 1]
  ELSE IF first /\ io.eintr = 1
    THEN WriteLoop(buf, cnt, i, io, calls + 1, FALSE, acc)
  ELSE WriteLoop(buf, cnt,
                 IF io.chunk = 0 THEN cnt ELSE Min(i + io.chunk, cnt),
                 io, calls + 1, FALSE,
                 acc \o SubSeq(buf, i + 1,
                               IF io.chunk = 0 THEN cnt ELSE Min(i + io.chunk, cnt)))

\* The rules in the order the two nested loops of lines 722-724 visit them,
\* each with its subject label id: labels x .. labels_cnt - 1.
RECURSIVE RulesFrom(_, _)
RulesFrom(handle, x) ==
  IF x >= handle.labels_cnt THEN <<>>
  ELSE [k \in 1..Len(LabelAt(handle, x).rules) |->
          [subject_id |-> x, rule |-> LabelAt(handle, x).rules[k]]]
       \o RulesFrom(handle, x + 1)

\* lines 754-755: the line feed save asks for
AddLf(modify, fd, p, add_lf) ==
  [modify |-> modify,
   fd     |-> fd,
   buf    |-> IF add_lf = 1 THEN p.buf \o <<"\n">> ELSE p.buf,
   cnt    |-> IF add_lf = 1 THEN p.cnt + 1 ELSE p.cnt]

\* lines 728-750: the record of a rule, given its labels and access strings
FormatFields(modify, subject, object, allow_str, deny_str, load_fd, change_fd, use_long, add_lf) ==
  IF modify
    THEN AddLf(modify, change_fd,
               snprintf(LOAD_LEN + 1,
                        KERNEL_MODIFY_FORMAT(subject, object, allow_str, deny_str)),
               add_lf)
  ELSE IF use_long = 1
    THEN AddLf(modify, load_fd,
               snprintf(LOAD_LEN + 1,
                        KERNEL_LONG_FORMAT(subject, object, allow_str)),
               add_lf)
  ELSE AddLf(modify, load_fd,
             snprintf(LOAD_LEN + 1,
                      KERNEL_SHORT_FORMAT(subject, object, allow_str)),
             add_lf)

\* The record formatted for one rule: [modify, fd, buf, cnt].
FormatRule(handle, e, clear, load_fd, change_fd, use_long, add_lf) ==
  FormatFields(IsModifyRule(e.rule) /\ clear = 0,
               LabelAt(handle, e.subject_id).label,
               LabelAt(handle, e.rule.object_id).label,
               access_code_to_str(PrintedAllow(e.rule, clear)),
               access_code_to_str(e.rule.deny_code),
               load_fd, change_fd, use_long, add_lf)

\* The writes after one run of the write loop: what the descriptor accepted
Accepted(writes, fd, w) ==
  IF w.ok \/ Len(w.bytes) > 0
    THEN Append(writes, [fd |-> fd, bytes |-> w.bytes])
    ELSE writes

RECURSIVE PrintRules(_, _, _, _, _, _, _, _, _, _, _)
\* lines 752-765 for the record r of rule todo[k], and the rules after it
PrintRecord(handle, todo, k, clear, load_fd, change_fd, use_long, add_lf, io, writes, r, w) ==
  IF ~w.ok THEN [ret |-> -1, writes |-> Accepted(writes, r.fd, w)]
  ELSE PrintRules(handle, todo, k + 1, clear, load_fd, change_fd, use_long,
                  add_lf, io, w.calls, Accepted(writes, r.fd, w))

\* accesses_print without the test of lines 731-732
PrintChecked_untested(handle, todo, k, clear, load_fd, change_fd, use_long, add_lf, io, calls, writes, r) ==
  PrintRecord(handle, todo, k, clear, load_fd, change_fd, use_long, add_lf,
              io, writes, r, WriteLoop(r.buf, r.cnt, 0, io, calls, TRUE, <<>>))

\* lines 731-732, then the write loop
PrintChecked(handle, todo, k, clear, load_fd, change_fd, use_long, add_lf, io, calls, writes, r) ==
  IF r.modify /\ change_fd < 0 THEN [ret |-> -1, writes |-> writes]
  ELSE PrintRecord(handle, todo, k, clear, load_fd, change_fd, use_long, add_lf,
                   io, writes, r, WriteLoop(r.buf, r.cnt, 0, io, calls, TRUE, <<>>))

\* The loops of lines 722-767 from the k-th rule on: [ret, writes]
PrintRules(handle, todo, k, clear, load_fd, change_fd, use_long, add_lf, io, calls, writes) ==
  IF k > Len(todo) THEN [ret |-> 0, writes |-> writes]
  ELSE PrintChecked(handle, todo, k, clear, load_fd, change_fd, use_long, add_lf,
                    io, calls, writes,
                    FormatRule(handle, todo[k], clear, load_fd, change_fd,
                               use_long, add_lf))

\* accesses_print without the test of line 719
ShortButLong_never(use_long, has_long) == FALSE

\* The test of line 719
ShortButLong(use_long, has_long) == use_long = 0 /\ has_long = 1

\* [ret, writes]
accesses_print(handle, clear, load_fd, change_fd, use_long, add_lf, io) ==
  IF ShortButLong(use_long, handle.has_long) THEN [ret |-> -1, writes |-> <<>>]
  ELSE PrintRules(handle, RulesFrom(handle, 0), 1, clear, load_fd, change_fd,
                  use_long, add_lf, io, 0, <<>>)

smack_accesses_save(handle, fd, io) ==
  accesses_print(handle, 0, fd, fd, 1, 1, io)

(***************************************************************************)
(* The kernel interface: open_smackfs_file and accesses_apply              *)
(*                                                                         *)
(* kernel.long_open, kernel.short_open and kernel.change_open are what     *)
(* openat returns for load2, load and change-rule: "ok" or the errno.      *)
(* The descriptors are numbered as the opens succeed, from FirstFd.        *)
(***************************************************************************)
\* open_smackfs_file without the test of errno of lines 658-659
open_smackfs_file_any(kernel, fd, use_long) ==
  IF kernel.long_open # "ok"
    THEN IF kernel.short_open # "ok" THEN [fd |-> -1, use_long |-> use_long]
         ELSE [fd |-> fd, use_long |-> 0]
    ELSE [fd |-> fd, use_long |-> 1]

\* [fd, use_long]; use_long is left as it was when both opens fail.
open_smackfs_file(kernel, fd, use_long) ==
  IF kernel.long_open # "ok"
    THEN IF kernel.long_open # "ENOENT" THEN [fd |-> -1, use_long |-> use_long]
         ELSE IF kernel.short_open # "ok" THEN [fd |-> -1, use_long |-> use_long]
         ELSE [fd |-> fd, use_long |-> 0]
    ELSE [fd |-> fd, use_long |-> 1]

\* lines 696-700: the descriptors err_out closes, in order
err_out(load_fd, change_fd) ==
  (IF load_fd >= 0 THEN << load_fd >> ELSE <<>>)
  \o (IF change_fd >= 0 THEN << change_fd >> ELSE <<>>)

\* line 694 and the result: [ret, writes, use_long, load_fd, change_fd,
\* closed], closed being the descriptors closed before the return
accesses_apply_print(load, change_fd, p) ==
  [ret |-> p.ret, writes |-> p.writes, use_long |-> load.use_long,
   load_fd |-> load.fd, change_fd |-> change_fd,
   closed |-> err_out(load.fd, change_fd)]

\* lines 689-692 without the test of errno
accesses_apply_change_strict(handle, clear, kernel, load, change_fd) ==
  IF change_fd < 0
    THEN [ret |-> -1, writes |-> <<>>, use_long |-> load.use_long,
          load_fd |-> load.fd, change_fd |-> change_fd,
          closed |-> err_out(load.fd, change_fd)]
  ELSE accesses_apply_print(load, change_fd,
         accesses_print(handle, clear, load.fd, change_fd, load.use_long, 0,
                        kernel.io))

\* lines 687-694: change-rule is opened, then the rules are printed
accesses_apply_change(handle, clear, kernel, load, change_fd) ==
  IF change_fd < 0 /\ kernel.change_open # "ENOENT"
    THEN [ret |-> -1, writes |-> <<>>, use_long |-> load.use_long,
          load_fd |-> load.fd, change_fd |-> change_fd,
          closed |-> err_out(load.fd, change_fd)]
  ELSE accesses_apply_print(load, change_fd,
         accesses_print(handle, clear, load.fd, change_fd, load.use_long, 0,
                        kernel.io))

\* lines 684-687: load is what open_smackfs_file returned
accesses_apply_load(handle, clear, kernel, load) ==
  IF load.fd < 0
    THEN [ret |-> -1, writes |-> <<>>, use_long |-> load.use_long,
          load_fd |-> -1, change_fd |-> -1, closed |-> <<>>]
  ELSE accesses_apply_change(handle, clear, kernel, load,
         IF kernel.change_open = "ok" THEN load.fd + 1 ELSE -1)

accesses_apply(handle, clear, kernel, first_fd) ==
  accesses_apply_load(handle, clear, kernel,
                      open_smackfs_file(kernel, first_fd, 1))

smack_accesses_apply(handle, kernel, first_fd) ==
  accesses_apply(handle, 0, kernel, first_fd)

smack_accesses_clear(handle, kernel, first_fd) ==
  accesses_apply(handle, 1, kernel, first_fd)

(***************************************************************************)
(* Text input: fgets and strtok_r                                          *)
(*                                                                         *)
(* A file is the sequence of its characters; a read position is the number *)
(* of characters consumed.                                                 *)
(***************************************************************************)
\* fgets(buf, size, file) at position pos: [buf, pos], buf = NULL at end of
\* file.  It stops after a newline or after size - 1 characters.
fgets(file, pos, size) ==
  IF pos >= Len(file) THEN [buf |-> NULL, pos |-> pos]
  ELSE LET limit == Min(Len(file), pos + size - 1)
           stop == IF \E j \in (pos + 1)..limit : file[j] = "\n"
                     THEN CHOOSE j \in (pos + 1)..limit :
                            /\ file[j] = "\n"
                            /\ \A q \in (pos + 1)..(j - 1) : file[q] # "\n"
                     ELSE limit
       IN  [buf |-> SubSeq(file, pos + 1, stop), pos |-> stop]

\* The delimiters " \t\n" given to strtok_r
IsDelim(c) == c \in {" ", "\t", "\n"}

\* The tokens successive strtok_r calls return from buf[lo..hi], in order.
\* The range is split at a delimiter near its middle, so that the depth of
\* the recursion stays logarithmic in the length of the buffer.
RECURSIVE Tokens(_, _, _)
Tokens(buf, lo, hi) ==
  IF lo > hi THEN <<>>
  ELSE IF \A j \in lo..hi : ~IsDelim(buf[j]) THEN << SubSeq(buf, lo, hi) >>
  ELSE LET mid == (lo + hi) \div 2
           m == IF \E j \in mid..hi : IsDelim(buf[j])
                  THEN CHOOSE j \in mid..hi :
                         IsDelim(buf[j]) /\ \A q \in mid..(j - 1) : ~IsDelim(buf[q])
                  ELSE CHOOSE j \in lo..(mid - 1) :
                         IsDelim(buf[j]) /\ \A q \in (j + 1)..(mid - 1) : ~IsDelim(buf[q])
       IN  Tokens(buf, lo, m - 1) \o Tokens(buf, m + 1, hi)

\* The k-th strtok_r result for a buffer with tokens toks: NULL once they
\* are used up.
strtok_r(toks, k) == IF k <= Len(toks) THEN toks[k] ELSE NULL

(***************************************************************************)
(* smack_accesses_add_from_file                                            *)
(***************************************************************************)
\* The test of lines 279-280 on the five strtok_r results
BadFieldCount(subject, object, access, fifth) ==
  subject = NULL \/ object = NULL \/ access = NULL \/ fifth # NULL

RECURSIVE AddFromFileLoop(_, _, _)
\* lines 290-294: r is what the add call returned
AddFromFileAdded(r, file, pos) ==
  IF r.ret # 0 THEN [ret |-> -1, handle |-> r.handle]
  ELSE AddFromFileLoop(r.handle, file, pos)

\* lines 274-288: the five strtok_r results of one line
AddFromFileFields(handle, file, pos, subject, object, access, access2, fifth) ==
  IF BadFieldCount(subject, object, access, fifth)
    THEN [ret |-> -1, handle |-> handle]
  ELSE AddFromFileAdded(
         IF access2 = NULL
           THEN smack_accesses_add(handle, subject, object, access)
           ELSE smack_accesses_add_modify(handle, subject, object, access, access2),
         file, pos)

AddFromFileTokens(handle, file, pos, toks) ==
  AddFromFileFields(handle, file, pos, strtok_r(toks, 1), strtok_r(toks, 2),
                    strtok_r(toks, 3), strtok_r(toks, 4), strtok_r(toks, 5))

\* lines 271-273: line is what fgets returned
AddFromFileLine(handle, file, line) ==
  IF line.buf = NULL THEN [ret |-> 0, handle |-> handle]
  ELSE IF line.buf = <<"\n">> THEN AddFromFileLoop(handle, file, line.pos)
  ELSE AddFromFileTokens(handle, file, line.pos,
                         Tokens(line.buf, 1, Len(line.buf)))

\* One pass of the while loop of line 271 and the passes after it:
\* [ret, handle].
AddFromFileLoop(handle, file, pos) ==
  AddFromFileLine(handle, file, fgets(file, pos, LOAD_LEN + 1))

smack_accesses_add_from_file(handle, file) == AddFromFileLoop(handle, file, 0)

(***************************************************************************)
(* Inputs                                                                  *)
(***************************************************************************)
\* "Unconfined" and "UnconfinfC" fall into the same hash bucket.
LUnconfined ==
  << "U", "n", "c", "o", "n", "f", "i", "n", "e", "d" >>
LCollide ==
  << "U", "n", "c", "o", "n", "f", "i", "n", "f", "C" >>
\* 23 and 24 characters: the longest short label and the shortest long one
LShort23 ==
  << "A", "B", "C", "D", "E", "F", "G", "H", "I", "J", "K", "L", "M", "N",
     "O", "P", "Q", "R", "S", "T", "U", "V", "W" >>
LLong24 ==
  << "A", "B", "C", "D", "E", "F", "G", "H", "I", "J", "K", "L", "M", "N",
     "O", "P", "Q", "R", "S", "T", "U", "V", "W", "X" >>
\* rejected by get_label: it begins with a dash
LBad ==
  << "-", "b", "a", "d" >>

Subjects == {LUnconfined, LLong24, LBad}
Objects == {LUnconfined, LCollide, LShort23, LLong24, LBad}
ValidLabels == {LUnconfined, LCollide, LShort23, LLong24}

\* access strings given to smack_accesses_add; the last one is malformed
AllowInputs == { <<"r", "w", "x", "a", "t">>, <<>>, <<"r", "w", "z">> }
\* (allow, deny) given to smack_accesses_add_modify: a deny that leaves bits
\* unspecified, a deny that overlaps allow and covers every bit, a malformed
\* deny
ModifyInputs ==
  { << <<"R", "w">>, <<"x">> >>,
    << <<"r", "w">>, <<"r", "w", "x", "a", "t", "l">> >>,
    << <<"r", "w">>, <<"q">> >> }

\* Rule files.  Pad(n) is a run of n spaces.
Pad(n) == Repeat(" ", n)
FileGood ==
  << "U", "n", "c", "o", "n", "f", "i", "n", "e", "d", " ", "U", "n", "c",
     "o", "n", "f", "i", "n", "f", "C", " ", "r", "w", "\n", "\n", "U",
     "n", "c", "o", "n", "f", "i", "n", "e", "d", "\t", "U", "n", "c", "o",
     "n", "f", "i", "n", "e", "d", " ", " ", "r", "w", "x", "a", "t", " ",
     "x", "\n" >>
FileTwoFields ==
  << "U", "n", "c", "o", "n", "f", "i", "n", "e", "d", " ", "U", "n", "c",
     "o", "n", "f", "i", "n", "f", "C", " ", "r", "w", "\n", "U", "n", "c",
     "o", "n", "f", "i", "n", "e", "d", " ", "r", "w", "\n", "U", "n", "c",
     "o", "n", "f", "i", "n", "e", "d", " ", "U", "n", "c", "o", "n", "f",
     "i", "n", "e", "d", " ", "r", "\n" >>
FileFiveFields ==
  << "U", "n", "c", "o", "n", "f", "i", "n", "e", "d", " ", "U", "n", "c",
     "o", "n", "f", "i", "n", "e", "d", " ", "l", "\n", "U", "n", "c", "o",
     "n", "f", "i", "n", "e", "d", " ", "U", "n", "c", "o", "n", "f", "i",
     "n", "e", "d", " ", "r", " ", "x", " ", "l", "\n" >>
FileBadLabel ==
  << "U", "n", "c", "o", "n", "f", "i", "n", "e", "d", " ", "a", "/", "b",
     " ", "r", "w", "\n", "U", "n", "c", "o", "n", "f", "i", "n", "e", "d",
     " ", "U", "n", "c", "o", "n", "f", "i", "n", "e", "d", " ", "r",
     "\n" >>
FileBadAccess ==
  << "U", "n", "c", "o", "n", "f", "i", "n", "e", "d", " ", "U", "n", "c",
     "o", "n", "f", "i", "n", "e", "d", " ", "r", "w", "\n", "U", "n", "c",
     "o", "n", "f", "i", "n", "e", "d", " ", "U", "n", "c", "o", "n", "f",
     "i", "n", "e", "d", " ", "r", "w", "?", "\n" >>
\* one line of three fields followed by blanks, longer than LOAD_LEN
FilePadded3 ==
  << "U", "n", "c", "o", "n", "f", "i", "n", "e", "d", " ", "U", "n", "c",
     "o", "n", "f", "i", "n", "e", "d", " ", "r", "w" >> \o Pad(LOAD_LEN - 5) \o <<"\n">>
\* one line of six fields, longer than LOAD_LEN
FileSixFields ==
  << "U", "n", "c", "o", "n", "f", "i", "n", "e", "d", " ", "U", "n", "c",
     "o", "n", "f", "i", "n", "e", "d", " ", "r", "w" >> \o Pad(LOAD_LEN - 15) \o
  << "U", "n", "c", "o", "n", "f", "i", "n", "f", "C", " ", "U", "n", "c",
     "o", "n", "f", "i", "n", "e", "d", " ", "r", "\n" >>
\* two rules for one pair of labels that differ in the lock bit alone
FileLock ==
  << "U", "n", "c", "o", "n", "f", "i", "n", "e", "d", " ", "U", "n", "c",
     "o", "n", "f", "i", "n", "e", "d", " ", "r", "w", "x", "a", "t", "\n",
     "U", "n", "c", "o", "n", "f", "i", "n", "e", "d", " ", "U", "n", "c",
     "o", "n", "f", "i", "n", "e", "d", " ", "r", "w", "x", "a", "t", "l",
     "\n" >>
Files ==
  << FileGood, FileTwoFields, FileFiveFields, FileBadLabel, FileBadAccess,
     FilePadded3, FileSixFields, FileLock >>

\* Kernel interfaces and destinations
PerfectIo == [chunk |-> 0, eintr |-> 0, fail_at |-> 0]
PartialIo == [chunk |-> 7, eintr |-> 1, fail_at |-> 0]
FailingIo == [chunk |-> 0, eintr |-> 0, fail_at |-> 2]
PartialFailingIo == [chunk |-> 7, eintr |-> 1, fail_at |-> 5]
DestIos == {PerfectIo, PartialIo, FailingIo}
Kernels ==
  { [long_open |-> "ok", short_open |-> "ok", change_open |-> "ok", io |-> PerfectIo],
    [long_open |-> "ok", short_open |-> "ok", change_open |-> "ENOENT", io |-> PerfectIo],
    [long_open |-> "ok", short_open |-> "ok", change_open |-> "EACCES", io |-> PerfectIo],
    [long_open |-> "ENOENT", short_open |-> "ok", change_open |-> "ok", io |-> PerfectIo],
    [long_open |-> "ENOENT", short_open |-> "ok", change_open |-> "ENOENT", io |-> PartialIo],
    [long_open |-> "ENOENT", short_open |-> "ENOENT", change_open |-> "ok", io |-> PerfectIo],
    [long_open |-> "EACCES", short_open |-> "ok", change_open |-> "ok", io |-> PerfectIo],
    [long_open |-> "ok", short_open |-> "ok", change_open |-> "ok", io |-> PartialIo],
    [long_open |-> "ok", short_open |-> "ok", change_open |-> "ok", io |-> FailingIo],
    [long_open |-> "ok", short_open |-> "ok", change_open |-> "ENOENT", io |-> PartialFailingIo] }
NoKernel ==
  [long_open |-> "ENOENT", short_open |-> "ENOENT", change_open |-> "ENOENT",
   io |-> PerfectIo]

\* The number of add, add_modify and add_from_file calls made on the engine
MaxCalls == 2

(***************************************************************************)
(* The rule engine as a state machine                                      *)
(*                                                                         *)
(* handle  the smack_accesses object                                       *)
(* calls   the add, add_modify and add_from_file calls made on handle      *)
(* all_ok  none of them has failed                                         *)
(* last    the last call: its arguments and what it returned and wrote     *)
(* reload  a fresh engine loaded from the output of the last save          *)
(*                                                                         *)
(* save, apply and clear leave the engine as it is and last holds one call *)
(* only, so a state reached by one of them after another is also reached   *)
(* by it alone: they are taken right after a call that built the engine    *)
(* (Fresh), which leaves the reachable states as they are.                 *)
(***************************************************************************)
VARIABLES handle, calls, all_ok, last, reload

engine_vars == << handle, calls, all_ok, last, reload >>

\* The codec machine: the string drawn, the step reached, what parsing and
\* formatting returned
VARIABLES acc_in, acc_pc, acc_code, acc_out

codec_vars == << acc_in, acc_pc, acc_code, acc_out >>

\* The CIPSO machine: the smack_cipso object, the pointer width of the build,
\* the add_from_file calls made, the last call, and the last apply
VARIABLES cipso, abi, cipso_calls, cipso_last, cipso_applied

cipso_vars == << cipso, abi, cipso_calls, cipso_last, cipso_applied >>

\* One accesses_print call taken a step at a time: its arguments, its place
\* in the loops, the record being written and what write returned last
VARIABLES wr

write_vars == << wr >>

\* The last smack_have_access call: its arguments, what it returned and the
\* descriptors it opened and closed
VARIABLES query

query_vars == << query >>

vars == << engine_vars, codec_vars, cipso_vars, write_vars, query_vars >>

NoCall ==
  [op |-> "none", ret |-> 0, writes |-> <<>>, use_long |-> 1,
   load_fd |-> -1, change_fd |-> -1, closed |-> <<>>, kernel |-> NoKernel,
   subject |-> NULL, object |-> NULL, allow |-> NULL, deny |-> NULL,
   file |-> 0]
NoReload == [done |-> FALSE, ret |-> 0, handle |-> smack_accesses_new]

\* The first descriptor openat hands out, and the descriptor save is given
FirstFd == 3
DestFd == 5

RECURSIVE CountRules(_, _)
CountRules(h, x) ==
  IF x >= h.labels_cnt THEN 0
  ELSE Len(LabelAt(h, x).rules) + CountRules(h, x + 1)

EngineInit ==
  /\ handle = smack_accesses_new
  /\ calls = 0
  /\ all_ok = TRUE
  /\ last = NoCall
  /\ reload = NoReload

AddReturns(r, op, subject, object, allow, deny, file) ==
  /\ handle' = r.handle
  /\ all_ok' = (all_ok /\ r.ret = 0)
  /\ last' = [NoCall EXCEPT !.op = op, !.ret = r.ret,
                !.subject = subject, !.object = object,
                !.allow = allow, !.deny = deny, !.file = file]
  /\ reload' = NoReload
  /\ UNCHANGED << codec_vars, cipso_vars, write_vars, query_vars >>

Add ==
  /\ calls < MaxCalls
  /\ calls' = calls + 1
  /\ \E subject \in Subjects, object \in Objects, access_type \in AllowInputs :
       AddReturns(smack_accesses_add(handle, subject, object, access_type),
                  "add", subject, object, access_type, NULL, 0)

AddModify ==
  /\ calls < MaxCalls
  /\ calls' = calls + 1
  /\ \E subject \in Subjects, object \in Objects, ad \in ModifyInputs :
       AddReturns(smack_accesses_add_modify(handle, subject, object, ad[1], ad[2]),
                  "add_modify", subject, object, ad[1], ad[2], 0)

AddFromFile ==
  /\ calls < MaxCalls
  /\ calls' = calls + 1
  /\ \E f \in 1..Len(Files) :
       AddReturns(smack_accesses_add_from_file(handle, Files[f]),
                  "add_from_file", NULL, NULL, NULL, NULL, f)

SaveReturns(r, io) ==
  last' = [NoCall EXCEPT !.op = "save", !.ret = r.ret,
             !.writes = r.writes, !.load_fd = DestFd,
             !.change_fd = DestFd, !.kernel.io = io]

Fresh == last.op \notin {"save", "apply", "clear"}

Save ==
  /\ Fresh
  /\ \E io \in DestIos : SaveReturns(smack_accesses_save(handle, DestFd, io), io)
  /\ reload' = NoReload
  /\ UNCHANGED << handle, calls, all_ok, codec_vars, cipso_vars, write_vars, query_vars >>

\* The text a destination holds after the writes it accepted
RECURSIVE Written(_, _)
Written(writes, k) ==
  IF k > Len(writes) THEN <<>> ELSE writes[k].bytes \o Written(writes, k + 1)

ReloadReturns(r) == reload' = [done |-> TRUE, ret |-> r.ret, handle |-> r.handle]

\* smack_accesses_add_from_file on a new engine, reading what save wrote
Reload ==
  /\ last.op = "save" /\ last.ret = 0 /\ ~reload.done
  /\ ReloadReturns(smack_accesses_add_from_file(smack_accesses_new,
                                                Written(last.writes, 1)))
  /\ UNCHANGED << handle, calls, all_ok, last, codec_vars, cipso_vars, write_vars, query_vars >>

ApplyReturns(r, op, kernel) ==
  last' = [NoCall EXCEPT !.op = op, !.ret = r.ret,
             !.writes = r.writes, !.use_long = r.use_long,
             !.load_fd = r.load_fd, !.change_fd = r.change_fd,
             !.closed = r.closed, !.kernel = kernel]

Apply ==
  /\ Fresh
  /\ \E kernel \in Kernels :
       ApplyReturns(smack_accesses_apply(handle, kernel, FirstFd), "apply", kernel)
  /\ reload' = NoReload
  /\ UNCHANGED << handle, calls, all_ok, codec_vars, cipso_vars, write_vars, query_vars >>

Clear ==
  /\ Fresh
  /\ \E kernel \in Kernels :
       ApplyReturns(smack_accesses_clear(handle, kernel, FirstFd), "clear", kernel)
  /\ reload' = NoReload
  /\ UNCHANGED << handle, calls, all_ok, codec_vars, cipso_vars, write_vars, query_vars >>

(***************************************************************************)
(* The access-code codec as a state machine: a string is drawn, parsed     *)
(* and, when it parses, formatted.                                         *)
(***************************************************************************)
\* The letters in the order access_code_to_str prints them, in both cases
AccessLower == << "r", "w", "x", "a", "t", "l" >>
AccessUpper == << "R", "W", "X", "A", "T", "L" >>

\* Strings of ACC_LEN characters with every letter, in either case, or a dash
\* at the place access_code_to_str gives it
PositionalStrings ==
  { << c1, c2, c3, c4, c5, c6 >> :
      c1 \in {"r", "R", "-"}, c2 \in {"w", "W", "-"}, c3 \in {"x", "X", "-"},
      c4 \in {"a", "A", "-"}, c5 \in {"t", "T", "-"}, c6 \in {"l", "L", "-"} }
\* Strings of ACC_LEN access characters in any place, and with a character
\* that is none
FreeStrings == [1..ACC_LEN -> {"r", "w", "L", "-"}]
ForeignStrings == [1..ACC_LEN -> {"r", "-", "z"}]
OtherStrings ==
  { <<>>, <<"r", "w">>, <<"r", "w", "x", "a", "t", "l", "-", "R">>,
    <<" ">>, <<"r", "w", "x", "a", "t", "l", "\n">> }
AccessStrings ==
  PositionalStrings \cup FreeStrings \cup ForeignStrings \cup OtherStrings

CodecIdle ==
  /\ acc_in = <<>>
  /\ acc_pc = "idle"
  /\ acc_code = 0
  /\ acc_out = <<>>

CodecInit ==
  /\ acc_in \in AccessStrings
  /\ acc_pc = "in"
  /\ acc_code = 0
  /\ acc_out = <<>>

Parse ==
  /\ acc_pc = "in"
  /\ acc_code' = str_to_access_code(acc_in)
  /\ acc_pc' = "parsed"
  /\ UNCHANGED << acc_in, acc_out, engine_vars, cipso_vars, write_vars, query_vars >>

Format ==
  /\ acc_pc = "parsed"
  /\ acc_code >= 0
  /\ acc_out' = access_code_to_str(acc_code)
  /\ acc_pc' = "formatted"
  /\ UNCHANGED << acc_in, acc_code, engine_vars, cipso_vars, write_vars, query_vars >>

(***************************************************************************)
(* The CIPSO store (struct smack_cipso, struct cipso_mapping)              *)
(*                                                                         *)
(* The list first / last / next is the sequence cipso.mappings.  A mapping *)
(* is laid out as label[SMACK_LABEL_LEN + 1], int cats[CAT_MAX_VALUE],     *)
(* int ncats, int level, next.  The store mapping->cats[i] of line 497     *)
(* runs for i < CAT_MAX_COUNT; for i >= CAT_MAX_VALUE it is outside cats   *)
(* and its effect is undefined.  What the usual layouts make of it is      *)
(* modelled: the int after cats is ncats, the next one level, then the     *)
(* link (after four bytes of padding where pointers are eight bytes wide,  *)
(* abi = "LP64"; at once where they are four, abi = "ILP32"), then memory  *)
(* that is not the mapping's.  Token k of the categories (from 1) goes to  *)
(* cats[k - 1].  A mapping records                                         *)
(*   outside  the stores made at an index >= CAT_MAX_VALUE                 *)
(*   next_ok  FALSE once a store put a value other than 0 into its link    *)
(*   beyond   the stores made past the end of the mapping object           *)
(***************************************************************************)
smack_cipso_new == [has_long |-> 0, mappings |-> <<>>, heap_ok |-> TRUE]

\* calloc(sizeof(struct cipso_mapping), 1)
NewMapping ==
  [label |-> <<>>, cats |-> Repeat(0, CAT_MAX_VALUE), ncats |-> 0, level |-> 0,
   next_ok |-> TRUE, outside |-> 0, beyond |-> 0]

\* The category tokens whose store falls on the link, and the first one
\* whose store is past the mapping object
LinkSlots(build) ==
  IF build = "LP64" THEN {CAT_MAX_VALUE + 4, CAT_MAX_VALUE + 5}
                    ELSE {CAT_MAX_VALUE + 3}
EndSlot(build) ==
  IF build = "LP64" THEN CAT_MAX_VALUE + 6 ELSE CAT_MAX_VALUE + 4

Digits == {"0", "1", "2", "3", "4", "5", "6", "7", "8", "9"}
\* A value above every bound the loader tests, for numbers that do not fit
HugeVal == 1000000

\* strtol(str, NULL, 10) on a token: the longest run of digits after an
\* optional sign; no digits give 0.  [val, errno]
DigitRun(str, from) ==
  IF \A i \in from..Len(str) : str[i] \in Digits THEN Len(str) - from + 1
  ELSE (CHOOSE i \in from..Len(str) :
          str[i] \notin Digits /\ \A j \in from..(i - 1) : str[j] \in Digits) - from
DigitsValue(str, from, n) ==
  LET v[i \in 0..n] ==
        IF i = 0 THEN 0
        ELSE v[i - 1] * 10 + (CodeTable[str[from + i - 1]] - CodeTable["0"])
  IN  v[n]
strtol_digits(str, from, n, negative) ==
  IF n > 9 THEN [val |-> IF negative THEN -HugeVal ELSE HugeVal,
                 errno |-> IF n > 18 THEN 1 ELSE 0]
  ELSE [val |-> IF negative THEN -DigitsValue(str, from, n)
                ELSE DigitsValue(str, from, n),
        errno |-> 0]
strtol(str) ==
  IF Len(str) > 0 /\ str[1] \in {"-", "+"}
    THEN strtol_digits(str, 2, DigitRun(str, 2), str[1] = "-")
    ELSE strtol_digits(str, 1, DigitRun(str, 1), FALSE)

\* A category token the loop of lines 488-500 stops at with an error
BadCat(tok) == strtol(tok).errno # 0 \/ strtol(tok).val < 0 \/ strtol(tok).val > CAT_MAX_VALUE

\* The stores the loop makes before it ends: all of the first CAT_MAX_COUNT
\* category tokens, or those before the first bad one
CatStores(cats) ==
  IF \E i \in 1..Min(Len(cats), CAT_MAX_COUNT) : BadCat(cats[i])
    THEN (CHOOSE i \in 1..Min(Len(cats), CAT_MAX_COUNT) :
            BadCat(cats[i]) /\ \A j \in 1..(i - 1) : ~BadCat(cats[j])) - 1
    ELSE Min(Len(cats), CAT_MAX_COUNT)
CatsFail(cats) ==
  \E i \in 1..Min(Len(cats), CAT_MAX_COUNT) : BadCat(cats[i])

\* mapping after the stores cats[0] .. cats[n - 1] = the first n tokens
\* (mapping->level is already set), and after line 502
StoreCats(m, cats, n, build) ==
  [m EXCEPT
     !.cats = [i \in 1..CAT_MAX_VALUE |->
                 IF i <= n THEN strtol(cats[i]).val ELSE m.cats[i]],
     !.level = IF n >= CAT_MAX_VALUE + 2
                 THEN strtol(cats[CAT_MAX_VALUE + 2]).val ELSE m.level,
     !.ncats = n,
     !.next_ok = \A i \in LinkSlots(build) : i <= n => strtol(cats[i]).val = 0,
     !.outside = IF n > CAT_MAX_VALUE THEN n - CAT_MAX_VALUE ELSE 0,
     !.beyond = IF n >= EndSlot(build) THEN n - EndSlot(build) + 1 ELSE 0]

\* lines 504-509
AppendMapping(c, m) ==
  [c EXCEPT
     !.mappings = IF Len(c.mappings) = 0 THEN << m >>
                  ELSE Append([c.mappings EXCEPT ![Len(c.mappings)].next_ok = TRUE], m),
     !.heap_ok = c.heap_ok /\ m.beyond = 0]

RECURSIVE CipsoLoop(_, _, _, _)
\* lines 488-509: m has its label and level; cats are the category tokens
CipsoCats(c, file, pos, build, m, cats) ==
  IF CatsFail(cats)
    THEN [ret |-> -1,
          cipso |-> [c EXCEPT !.heap_ok =
                       c.heap_ok /\ CatStores(cats) < EndSlot(build)]]
  ELSE CipsoLoop(AppendMapping(c, StoreCats(m, cats, CatStores(cats), build)),
                 file, pos, build)

\* lines 478-486: lv is what strtol returned for the level token
CipsoLevel(c, file, pos, build, label, lv, cats) ==
  IF lv.errno # 0 \/ lv.val < 0 \/ lv.val > LEVEL_MAX
    THEN [ret |-> -1, cipso |-> c]
  ELSE CipsoCats(c, file, pos, build,
                 [NewMapping EXCEPT !.label = label, !.level = lv.val], cats)

\* lines 472-476: g is what get_label returned for the label token
CipsoLabel(c, file, pos, build, g, toks) ==
  IF g.ret < 0 THEN [ret |-> -1, cipso |-> c]
  ELSE CipsoLevel([c EXCEPT !.has_long =
                     IF g.ret > SHORT_LABEL_LEN THEN 1 ELSE c.has_long],
                  file, pos, build, g.dest, strtol(toks[2]),
                  SubSeq(toks, 3, Len(toks)))

\* lines 465-470
CipsoTokens(c, file, pos, build, toks) ==
  IF strtok_r(toks, 2) = NULL THEN [ret |-> -1, cipso |-> c]
  ELSE CipsoLabel(c, file, pos, build, get_label(strtok_r(toks, 1)), toks)

CipsoLine(c, file, build, line) ==
  IF line.buf = NULL THEN [ret |-> 0, cipso |-> c]
  ELSE CipsoTokens(c, file, line.pos, build, Tokens(line.buf, 1, Len(line.buf)))

\* One pass of the while loop of line 460 and the passes after it:
\* [ret, cipso]
CipsoLoop(c, file, pos, build) ==
  CipsoLine(c, file, build, fgets(file, pos, BUF_SIZE))

smack_cipso_add_from_file(c, file, build) == CipsoLoop(c, file, 0, build)

(***************************************************************************)
(* smack_cipso_apply                                                       *)
(*                                                                         *)
(* kernel.long_open and kernel.short_open are what openat returns for      *)
(* cipso2 and cipso.  The result is [ret, writes, use_long, fd, closed,    *)
(* defined]: writes are the write calls made, each with the bytes asked    *)
(* and the bytes accepted.  A walk that reads categories past cats[], a    *)
(* link that a category store overwrote, or a heap written past a mapping  *)
(* has no defined result: the operator gives the set of results possible.  *)
(***************************************************************************)
NulChar == "NUL"

\* sprintf(.., "%-4d", v) for 0 <= v < 10000
DecimalDigits(v) ==
  IF v < 10 THEN << v >>
  ELSE IF v < 100 THEN << v \div 10, v % 10 >>
  ELSE IF v < 1000 THEN << v \div 100, (v \div 10) % 10, v % 10 >>
  ELSE << v \div 1000, (v \div 100) % 10, (v \div 10) % 10, v % 10 >>
DigitText(d) ==
  << "0", "1", "2", "3", "4", "5", "6", "7", "8", "9" >>[d + 1]
CIPSO_NUM_LEN_STR(v) ==
  FmtLeft([i \in 1..Len(DecimalDigits(v)) |-> DigitText(DecimalDigits(v)[i])],
          NUM_LEN)

\* lines 416-418: the label and the NUL after it
CipsoLabelField(m, use_long) ==
  snprintf(SMACK_LABEL_LEN + 1,
           IF use_long = 1 THEN FmtS(m.label)
           ELSE FmtLeft(m.label, SHORT_LABEL_LEN)).buf \o << NulChar >>

\* lines 426-429: the categories cats[0] .. cats[n - 1]
RECURSIVE CipsoCatFields(_, _, _)
CipsoCatFields(m, from, to) ==
  IF from > to THEN <<>>
  ELSE IF from = to THEN CIPSO_NUM_LEN_STR(m.cats[from])
  ELSE CipsoCatFields(m, from, (from + to) \div 2)
       \o CipsoCatFields(m, ((from + to) \div 2) + 1, to)

\* lines 416-429: buf[0 .. offset - 1] for a mapping whose categories are
\* all inside cats[]
CipsoRecord(m, use_long) ==
  CipsoLabelField(m, use_long) \o CIPSO_NUM_LEN_STR(m.level)
  \o CIPSO_NUM_LEN_STR(m.ncats) \o CipsoCatFields(m, 1, m.ncats)

\* write(fd, buf, offset), the k-th write call: the count returned, -1 for
\* an error or an interruption
CipsoWriteCount(io, k, offset) ==
  IF k = io.fail_at \/ io.eintr = 1 THEN -1
  ELSE IF io.chunk = 0 THEN offset ELSE Min(io.chunk, offset)

\* The results possible once the walk has left defined behaviour
CipsoUndefined(use_long, fd, writes) ==
  { [ret |-> r, writes |-> writes, use_long |-> use_long, fd |-> fd,
     closed |-> cl, defined |-> FALSE] : r \in {0, -1}, cl \in BOOLEAN }

\* The test of line 431 on what write returned
CipsoWritten(n, offset) == n >= 0

RECURSIVE CipsoApplyLoop(_, _, _, _, _, _)
\* line 431-434 for the k-th mapping, n being what write returned
CipsoApplyWrite(c, k, use_long, fd, io, writes, n) ==
  IF ~CipsoWritten(n, Len(CipsoRecord(c.mappings[k], use_long)))
    THEN { [ret |-> -1,
            writes |-> Append(writes, [buf |-> CipsoRecord(c.mappings[k], use_long),
                                       bytes |-> <<>>, count |-> n]),
            use_long |-> use_long, fd |-> fd, closed |-> TRUE, defined |-> TRUE] }
  ELSE CipsoApplyLoop(c, k + 1, use_long, fd, io,
         Append(writes, [buf |-> CipsoRecord(c.mappings[k], use_long),
                         bytes |-> SubSeq(CipsoRecord(c.mappings[k], use_long), 1, n),
                         count |-> n]))

\* The loop of lines 415-435 from the k-th mapping on
CipsoApplyLoop(c, k, use_long, fd, io, writes) ==
  IF k > Len(c.mappings)
    THEN IF Len(c.mappings) > 0 /\ ~c.mappings[Len(c.mappings)].next_ok
           THEN CipsoUndefined(use_long, fd, writes)
         ELSE { [ret |-> 0, writes |-> writes, use_long |-> use_long,
                 fd |-> fd, closed |-> TRUE, defined |-> TRUE] }
  ELSE IF c.mappings[k].outside > 0 \/ c.mappings[k].ncats > CAT_MAX_VALUE
    THEN CipsoUndefined(use_long, fd, writes)
  ELSE CipsoApplyWrite(c, k, use_long, fd, io, writes,
         CipsoWriteCount(io, k, Len(CipsoRecord(c.mappings[k], use_long))))

\* lines 406-411: f is what open_smackfs_file returned
CipsoApplyOpened(c, kernel, f) ==
  IF f.fd < 0
    THEN { [ret |-> -1, writes |-> <<>>, use_long |-> f.use_long, fd |-> -1,
            closed |-> TRUE, defined |-> TRUE] }
  ELSE IF f.use_long = 0 /\ c.has_long = 1
    THEN { [ret |-> -1, writes |-> <<>>, use_long |-> 0, fd |-> f.fd,
            closed |-> FALSE, defined |-> TRUE] }
  ELSE CipsoApplyLoop(c, 1, f.use_long, f.fd, kernel.io, <<>>)

\* The set of results of smack_cipso_apply.  use_long has no value before
\* open_smackfs_file; it is read only after an open that set it.
smack_cipso_apply(c, kernel, first_fd) ==
  IF ~c.heap_ok THEN CipsoUndefined(1, first_fd, <<>>)
  ELSE CipsoApplyOpened(c, kernel, open_smackfs_file(kernel, first_fd, 1))

(***************************************************************************)
(* CIPSO inputs                                                            *)
(***************************************************************************)
DigitChars == << "0", "1", "2", "3", "4", "5", "6", "7", "8", "9" >>

\* The k-th category of a generated line: 1, 2, .. 9, 1, 2, ..
CatValue(k) == ((k - 1) % 9) + 1

\* n category fields " c" starting with the category numbered from
CatFields(from, n, zero) ==
  [i \in 1..(2 * n) |->
     IF i % 2 = 1 THEN " "
     ELSE IF zero THEN "0" ELSE DigitChars[CatValue(from + (i \div 2) - 1) + 1]]

CipsoText(label, level, n, zero) ==
  label \o << " " >> \o level \o CatFields(1, n, zero) \o << "\n" >>

\* as CipsoText, with the category 64 in place of the k-th one
CipsoTextBadCat(label, level, n, k) ==
  label \o << " " >> \o level \o CatFields(1, k - 1, FALSE) \o
  << " ", "6", "4" >> \o CatFields(k + 1, n - k, FALSE) \o << "\n" >>

CatCounts == {0, 1, CAT_MAX_VALUE, CAT_MAX_VALUE + 1, CAT_MAX_VALUE + 2,
              CAT_MAX_VALUE + 3, CAT_MAX_VALUE + 5, CAT_MAX_VALUE + 6,
              CAT_MAX_COUNT, CAT_MAX_COUNT + 5}

\* Well-formed lines: [label, level, n, zero] stands for
\* CipsoText(label, level token, n, zero)
GoodLines ==
  { [label |-> LUnconfined, level |-> 5, n |-> n, zero |-> FALSE] : n \in CatCounts }
  \cup { [label |-> LUnconfined, level |-> 5, n |-> CAT_MAX_VALUE + 6, zero |-> TRUE],
         [label |-> LLong24, level |-> 255, n |-> 1, zero |-> FALSE] }

LevelToken(v) ==
  IF v < 10 THEN << DigitChars[v + 1] >>
  ELSE IF v < 100 THEN << DigitChars[(v \div 10) + 1], DigitChars[(v % 10) + 1] >>
  ELSE << DigitChars[(v \div 100) + 1], DigitChars[((v \div 10) % 10) + 1],
          DigitChars[(v % 10) + 1] >>

GoodText(g) == CipsoText(g.label, LevelToken(g.level), g.n, g.zero)

NoLine == [label |-> <<>>, level |-> 0, n |-> 0, zero |-> FALSE]

\* A file: its text and, when it is one well-formed line, that line
CipsoFiles ==
  { [text |-> GoodText(g), good |-> g] : g \in GoodLines }
  \cup { [text |-> t, good |-> NoLine] :
           t \in { CipsoText(LBad, << "5" >>, 1, FALSE),
                   CipsoText(LUnconfined, << "2", "5", "6" >>, 1, FALSE),
                   CipsoText(LLong24, << "x", "1" >>, 0, FALSE),
                   CipsoText(LLong24, << "2", "5", "6" >>, 1, FALSE),
                   LUnconfined \o << "\n" >>,
                   CipsoTextBadCat(LUnconfined, << "5" >>, 5, 3),
                   CipsoTextBadCat(LUnconfined, << "5" >>, CAT_MAX_VALUE + 9,
                                   CAT_MAX_VALUE + 8),
                   CipsoText(LUnconfined, << "5" >>, CAT_MAX_VALUE + 1, FALSE) \o
                     CipsoText(LCollide, << "7" >>, 2, FALSE) } }

\* The add_from_file calls a behaviour makes on the store
MaxCipsoCalls == 2

\* A destination that accepts 7 bytes of every write
ShortIo == [chunk |-> 7, eintr |-> 0, fail_at |-> 0]
\* What the kernel offers smack_cipso_apply: cipso2 and cipso
CipsoKernels ==
  { [long_open |-> "ok", short_open |-> "ok", io |-> PerfectIo],
    [long_open |-> "ENOENT", short_open |-> "ok", io |-> PerfectIo],
    [long_open |-> "ENOENT", short_open |-> "ENOENT", io |-> PerfectIo],
    [long_open |-> "EACCES", short_open |-> "ok", io |-> PerfectIo],
    [long_open |-> "ok", short_open |-> "ok", io |-> ShortIo],
    [long_open |-> "ok", short_open |-> "ok", io |-> PartialIo],
    [long_open |-> "ok", short_open |-> "ok", io |-> FailingIo] }

(***************************************************************************)
(* The CIPSO state machine                                                 *)
(***************************************************************************)
NoCipsoCall == [op |-> "none", ret |-> 0, file |-> <<>>, good |-> NoLine, before |-> 0]

NoCipsoApply ==
  [done |-> FALSE, ret |-> 0, writes |-> <<>>, use_long |-> 1, fd |-> -1,
   closed |-> TRUE, defined |-> TRUE,
   kernel |-> [long_open |-> "ENOENT", short_open |-> "ENOENT", io |-> PerfectIo]]

CipsoIdle ==
  /\ cipso = smack_cipso_new
  /\ abi = "LP64"
  /\ cipso_calls = 0
  /\ cipso_last = NoCipsoCall
  /\ cipso_applied = NoCipsoApply

CipsoInit ==
  /\ cipso = smack_cipso_new
  /\ abi \in {"LP64", "ILP32"}
  /\ cipso_calls = 0
  /\ cipso_last = NoCipsoCall
  /\ cipso_applied = NoCipsoApply

CipsoAddReturns(r, f) ==
  /\ cipso' = r.cipso
  /\ cipso_last' = [op |-> "add_from_file", ret |-> r.ret, file |-> f.text,
                    good |-> f.good, before |-> Len(cipso.mappings)]
  /\ cipso_calls' = cipso_calls + 1
  /\ cipso_applied' = NoCipsoApply
  /\ UNCHANGED << abi, engine_vars, codec_vars, write_vars, query_vars >>

CipsoAddFromFile ==
  /\ cipso_calls < MaxCipsoCalls
  /\ \E f \in CipsoFiles :
       CipsoAddReturns(smack_cipso_add_from_file(cipso, f.text, abi), f)

CipsoApplyReturns(r, kernel) ==
  cipso_applied' = [done |-> TRUE, ret |-> r.ret, writes |-> r.writes,
                    use_long |-> r.use_long, fd |-> r.fd, closed |-> r.closed,
                    defined |-> r.defined, kernel |-> kernel]

CipsoApply ==
  /\ ~cipso_applied.done
  /\ \E kernel \in CipsoKernels :
       \E r \in smack_cipso_apply(cipso, kernel, FirstFd) :
         CipsoApplyReturns(r, kernel)
  /\ UNCHANGED << cipso, abi, cipso_calls, cipso_last, engine_vars, codec_vars, write_vars, query_vars >>

(***************************************************************************)
(* The engine with a label table at its capacity                           *)
(*                                                                         *)
(* The table after n calls smack_accesses_add(h, l, l, "rwz") with         *)
(* l = TableLabel(0), TableLabel(1), ..: each call interns its label and   *)
(* fails on the access string, so no rule is stored.  TableLabel(i) is i   *)
(* written with four digits to the base 33, the digits being the           *)
(* characters from "0" on, so that the DJB2 bucket of TableLabel(i) is the *)
(* bucket of TableLabel(0) plus i, modulo DICT_HASH_SIZE.                  *)
(***************************************************************************)
TableDigit(i, p) == Printable[CodeTable["0"] - 31 + ((i \div (33 ^ p)) % 33)]
TableLabel(i) ==
  << TableDigit(i, 3), TableDigit(i, 2), TableDigit(i, 1), TableDigit(i, 0) >>
\* The least id in bucket h
TableFirst(h) ==
  (h + DICT_HASH_SIZE - get_label(TableLabel(0)).hash) % DICT_HASH_SIZE
FilledTable(n) ==
  [has_long     |-> 0,
   labels_cnt   |-> n,
   labels_alloc |-> MAX_LABELS_CNT,
   labels       |-> [i \in 1..n |->
                       [len        |-> 4,
                        id         |-> i - 1,
                        label      |-> TableLabel(i - 1),
                        rules      |-> <<>>,
                        next_label |-> IF i - 1 + DICT_HASH_SIZE < n
                                         THEN i - 1 + DICT_HASH_SIZE ELSE NIL]],
   label_hash   |-> [h \in 0..(DICT_HASH_SIZE - 1) |->
                       [first |-> TableFirst(h),
                        last  |-> TableFirst(h) + DICT_HASH_SIZE *
                                    ((n - 1 - TableFirst(h)) \div DICT_HASH_SIZE)]]]

\* The labels given to add on these tables: two interned in both, one
\* interned in the full table only, and two in neither
FullSubjects == {TableLabel(0), TableLabel(MAX_LABELS_CNT - 1), LUnconfined}
FullObjects ==
  {TableLabel(DICT_HASH_SIZE), TableLabel(MAX_LABELS_CNT - 1), LUnconfined, LCollide}

FullInit ==
  /\ handle \in {FilledTable(MAX_LABELS_CNT - 1), FilledTable(MAX_LABELS_CNT)}
  /\ calls = 0
  /\ all_ok = TRUE
  /\ last = NoCall
  /\ reload = NoReload

AddFull ==
  /\ calls < MaxCalls
  /\ calls' = calls + 1
  /\ \E subject \in FullSubjects, object \in FullObjects, access_type \in AllowInputs :
       AddReturns(smack_accesses_add(handle, subject, object, access_type),
                  "add", subject, object, access_type, NULL, 0)

(***************************************************************************)
(* accesses_print, one step at a time                                      *)
(*                                                                         *)
(* wr.pc is "begin" before line 719, "rule" at the head of the loops of    *)
(* lines 722-724 (wr.k is the place of the next rule in their order),      *)
(* "write" at the write call of line 758 and "done" after a return.        *)
(* wr.res is what the last write call returned; wr.tick counts the write   *)
(* calls modulo 2.                                                         *)
(***************************************************************************)
NoResult == [kind |-> "none", n |-> 0]
NoRecord == [modify |-> FALSE, fd |-> -1, buf |-> <<>>, cnt |-> 0]
NoPrint ==
  [pc |-> "idle", clear |-> 0, load_fd |-> -1, change_fd |-> -1,
   use_long |-> 1, add_lf |-> 0, k |-> 0, rec |-> NoRecord, i |-> 0,
   ret |-> 0, res |-> NoResult, tick |-> 0, zeros |-> FALSE, eintrs |-> FALSE]

WriteIdle == wr = NoPrint

\* The arguments smack_accesses_save, smack_accesses_apply and
\* smack_accesses_clear give accesses_print: save on DestFd; apply with
\* load2 and change-rule open; clear with load open and no change-rule
PrintCalls ==
  { [NoPrint EXCEPT !.pc = "begin", !.load_fd = DestFd, !.change_fd = DestFd,
                    !.use_long = 1, !.add_lf = 1],
    [NoPrint EXCEPT !.pc = "begin", !.load_fd = FirstFd, !.change_fd = FirstFd + 1,
                    !.use_long = 1],
    [NoPrint EXCEPT !.pc = "begin", !.clear = 1, !.load_fd = FirstFd,
                    !.use_long = 0] }

\* The engines printed: no rule; two load rules; a load rule and a modify
\* rule with a 24-byte object
PrintEngines ==
  { smack_accesses_new,
    smack_accesses_add_from_file(smack_accesses_new, FileLock).handle,
    smack_accesses_add_modify(
      smack_accesses_add(smack_accesses_new, LUnconfined, LCollide,
                         << "r", "w", "x", "a", "t" >>).handle,
      LUnconfined, LLong24, << "r", "w" >>, << "x" >>).handle }

WriteInit ==
  /\ handle \in PrintEngines
  /\ calls = 0
  /\ all_ok = TRUE
  /\ last = NoCall
  /\ reload = NoReload
  /\ wr \in PrintCalls

\* line 719
PrintBegin ==
  /\ wr.pc = "begin"
  /\ wr' = IF ShortButLong(wr.use_long, handle.has_long)
             THEN [wr EXCEPT !.pc = "done", !.ret = -1]
           ELSE [wr EXCEPT !.pc = "rule", !.k = 1]
  /\ UNCHANGED << engine_vars, codec_vars, cipso_vars, query_vars >>

\* lines 722-755 for the record r of the next rule
PrintFormatted(r) ==
  wr' = IF r.modify /\ wr.change_fd < 0
          THEN [wr EXCEPT !.pc = "done", !.ret = -1]
        ELSE IF r.cnt = 0
          THEN [wr EXCEPT !.k = @ + 1, !.rec = r, !.i = 0]
        ELSE [wr EXCEPT !.pc = "write", !.rec = r, !.i = 0]

\* lines 722-755: the next rule is formatted, or the loops end (line 769)
PrintRule ==
  /\ wr.pc = "rule"
  /\ IF wr.k > Len(RulesFrom(handle, 0))
       THEN wr' = [wr EXCEPT !.pc = "done", !.ret = 0]
     ELSE PrintFormatted(FormatRule(handle, RulesFrom(handle, 0)[wr.k], wr.clear,
                                    wr.load_fd, wr.change_fd, wr.use_long,
                                    wr.add_lf))
  /\ UNCHANGED << engine_vars, codec_vars, cipso_vars, query_vars >>

\* line 764 with i left as it is
WriteAdvance_stay(i, ret) == i

\* line 764: i += ret
WriteAdvance(i, ret) == i + ret

\* The byte counts a write of n bytes returns when it accepts some of them
WriteCounts(n) == {Min(n, 7), n}

\* lines 757-765 after write returned the count n
WriteReturned(n) ==
  wr' = IF WriteAdvance(wr.i, n) < wr.rec.cnt
          THEN [wr EXCEPT !.i = WriteAdvance(wr.i, n),
                          !.res = [kind |-> "count", n |-> n],
                          !.tick = 1 - @,
                          !.zeros = @ \/ n = 0]
        ELSE [wr EXCEPT !.i = WriteAdvance(wr.i, n),
                        !.res = [kind |-> "count", n |-> n],
                        !.tick = 1 - @,
                        !.pc = "rule", !.k = @ + 1]

\* write accepts some bytes
WriteCount ==
  /\ wr.pc = "write"
  /\ \E n \in WriteCounts(wr.rec.cnt - wr.i) : WriteReturned(n)
  /\ UNCHANGED << engine_vars, codec_vars, cipso_vars, query_vars >>

\* write returns 0
WriteZero ==
  /\ wr.pc = "write"
  /\ WriteReturned(0)
  /\ UNCHANGED << engine_vars, codec_vars, cipso_vars, query_vars >>

\* lines 759-761: write returns -1 with errno EINTR
WriteEintr ==
  /\ wr.pc = "write"
  /\ wr' = [wr EXCEPT !.res = [kind |-> "eintr", n |-> -1], !.tick = 1 - @,
                      !.eintrs = TRUE]
  /\ UNCHANGED << engine_vars, codec_vars, cipso_vars, query_vars >>

\* lines 759-762: write returns -1 with another errno
WriteError ==
  /\ wr.pc = "write"
  /\ wr' = [wr EXCEPT !.res = [kind |-> "error", n |-> -1], !.tick = 1 - @,
                      !.pc = "done", !.ret = -1]
  /\ UNCHANGED << engine_vars, codec_vars, cipso_vars, query_vars >>

(***************************************************************************)
(* smack_have_access                                                       *)
(*                                                                         *)
(* kernel.long_open and kernel.short_open are what openat returns for      *)
(* access2 and access, kernel.write what write does with the query ("ok",  *)
(* "short" for a count below the length, "error") and kernel.read what     *)
(* read returns: the byte "1" or "0", "eof" for a count of 0, "error".     *)
(* The result is [ret, fd, use_long, opened, closed, written]: opened and  *)
(* closed are the descriptors opened and closed before the return.         *)
(***************************************************************************)
\* lines 357-362: buf is the query written, whose first byte read replaces
HaveAccessRead(kernel, fd, use_long, buf) ==
  [ret |-> IF kernel.read = "error" THEN -1
           ELSE IF kernel.read = "eof" THEN (IF buf[1] = "1" THEN 1 ELSE 0)
           ELSE IF kernel.read = "1" THEN 1 ELSE 0,
   fd |-> fd, use_long |-> use_long, opened |-> << fd >>, closed |-> << fd >>,
   written |-> buf]

\* lines 351-355
HaveAccessWrite(kernel, fd, use_long, buf) ==
  IF kernel.write = "error"
    THEN [ret |-> -1, fd |-> fd, use_long |-> use_long, opened |-> << fd >>,
          closed |-> << fd >>, written |-> <<>>]
  ELSE HaveAccessRead(kernel, fd, use_long, buf)

\* lines 335-349: code is what str_to_access_code returned
HaveAccessCode(kernel, fd, use_long, subject, object, code) ==
  IF code < 0
    THEN [ret |-> -1, fd |-> fd, use_long |-> use_long, opened |-> << fd >>,
          closed |-> <<>>, written |-> <<>>]
  ELSE HaveAccessWrite(kernel, fd, use_long,
         snprintf(LOAD_LEN + 1,
                  IF use_long = 1
                    THEN KERNEL_LONG_FORMAT(subject, object, access_code_to_str(code))
                    ELSE KERNEL_SHORT_FORMAT(subject, object,
                                             access_code_to_str(code))).buf)

\* lines 326-333: f is what open_smackfs_file returned
HaveAccessOpened(kernel, f, subject, object, access_type, slen, olen) ==
  IF f.fd < 0
    THEN [ret |-> -1, fd |-> -1, use_long |-> f.use_long, opened |-> <<>>,
          closed |-> <<>>, written |-> <<>>]
  ELSE IF f.use_long = 0 /\ (slen > SHORT_LABEL_LEN \/ olen > SHORT_LABEL_LEN)
    THEN [ret |-> -1, fd |-> f.fd, use_long |-> 0, opened |-> << f.fd >>,
          closed |-> << f.fd >>, written |-> <<>>]
  ELSE HaveAccessCode(kernel, f.fd, f.use_long, subject, object,
                      str_to_access_code(access_type))

\* lines 320-326: slen and olen are what get_label returned
HaveAccessLabels(kernel, first_fd, subject, object, access_type, slen, olen) ==
  IF slen < 0 \/ olen < 0
    THEN [ret |-> -1, fd |-> -1, use_long |-> 1, opened |-> <<>>,
          closed |-> <<>>, written |-> <<>>]
  ELSE HaveAccessOpened(kernel, open_smackfs_file(kernel, first_fd, 1),
                        subject, object, access_type, slen, olen)

smack_have_access(kernel, first_fd, subject, object, access_type) ==
  HaveAccessLabels(kernel, first_fd, subject, object, access_type,
                   get_label(subject).ret, get_label(object).ret)

\* What the kernel offers smack_have_access
QueryKernels ==
  { [long_open |-> "ok", short_open |-> "ok", write |-> "ok", read |-> "1"],
    [long_open |-> "ok", short_open |-> "ok", write |-> "short", read |-> "0"],
    [long_open |-> "ok", short_open |-> "ok", write |-> "error", read |-> "1"],
    [long_open |-> "ok", short_open |-> "ok", write |-> "ok", read |-> "error"],
    [long_open |-> "ok", short_open |-> "ok", write |-> "ok", read |-> "eof"],
    [long_open |-> "ENOENT", short_open |-> "ok", write |-> "ok", read |-> "1"],
    [long_open |-> "ENOENT", short_open |-> "ENOENT", write |-> "ok", read |-> "1"],
    [long_open |-> "EACCES", short_open |-> "ok", write |-> "ok", read |-> "1"] }

NoQuery ==
  [op |-> "none", ret |-> 0, fd |-> -1, use_long |-> 1, opened |-> <<>>,
   closed |-> <<>>, written |-> <<>>, subject |-> NULL, object |-> NULL,
   access_type |-> NULL,
   kernel |-> [long_open |-> "ENOENT", short_open |-> "ENOENT",
               write |-> "ok", read |-> "1"]]

QueryIdle == query = NoQuery

HaveAccessReturns(r, kernel, subject, object, access_type) ==
  query' = [op |-> "have_access", ret |-> r.ret, fd |-> r.fd,
            use_long |-> r.use_long, opened |-> r.opened, closed |-> r.closed,
            written |-> r.written, subject |-> subject, object |-> object,
            access_type |-> access_type, kernel |-> kernel]

\* The kernel-facing calls a behaviour makes
MaxKernelCalls == 1
KernelCalls ==
  (IF last.op \in {"apply", "clear"} THEN 1 ELSE 0)
  + (IF cipso_applied.done THEN 1 ELSE 0)
  + (IF query.op = "have_access" THEN 1 ELSE 0)

HaveAccess ==
  /\ KernelCalls < MaxKernelCalls
  /\ \E kernel \in QueryKernels, subject \in Subjects, object \in Objects, access_type \in AllowInputs :
       HaveAccessReturns(smack_have_access(kernel, FirstFd, subject, object, access_type),
                         kernel, subject, object, access_type)
  /\ UNCHANGED << engine_vars, codec_vars, cipso_vars, write_vars >>

KernelApply == KernelCalls < MaxKernelCalls /\ Apply
KernelClear == KernelCalls < MaxKernelCalls /\ Clear
KernelCipsoApply == KernelCalls < MaxKernelCalls /\ CipsoApply

\* The stores and engines the kernel-facing operations are run on: a store
\* with no mapping, with a short label, with a 24-byte label
KernelStores ==
  { smack_cipso_new,
    smack_cipso_add_from_file(smack_cipso_new,
                              CipsoText(LUnconfined, << "5" >>, 2, FALSE), "LP64").cipso,
    smack_cipso_add_from_file(smack_cipso_new,
                              CipsoText(LLong24, << "7" >>, 1, FALSE), "LP64").cipso }

KernelInit ==
  /\ handle \in PrintEngines
  /\ calls = 0
  /\ all_ok = TRUE
  /\ last = NoCall
  /\ reload = NoReload
  /\ cipso \in KernelStores
  /\ abi = "LP64"
  /\ cipso_calls = 0
  /\ cipso_last = NoCipsoCall
  /\ cipso_applied = NoCipsoApply
  /\ query = NoQuery

(***************************************************************************)
(* The specifications                                                      *)
(***************************************************************************)
Init == EngineInit /\ CodecIdle /\ CipsoIdle /\ WriteIdle /\ QueryIdle

Next == Add \/ AddModify \/ AddFromFile \/ Save \/ Reload \/ Apply \/ Clear

Spec == Init /\ [][Next]_vars

SpecCodecInit == EngineInit /\ CodecInit /\ CipsoIdle /\ WriteIdle /\ QueryIdle

SpecCodecNext == Parse \/ Format

SpecCodec == SpecCodecInit /\ [][SpecCodecNext]_vars

SpecCipsoInit == EngineInit /\ CodecIdle /\ CipsoInit /\ WriteIdle /\ QueryIdle

SpecCipsoNext == CipsoAddFromFile \/ CipsoApply

SpecCipso == SpecCipsoInit /\ [][SpecCipsoNext]_vars

SpecFullInit == FullInit /\ CodecIdle /\ CipsoIdle /\ WriteIdle /\ QueryIdle
SpecFullNext == AddFull
SpecFull == SpecFullInit /\ [][SpecFullNext]_vars

\* accesses_print runs on: the thread takes its next step (weak fairness of
\* the whole step relation), and the destination does not interrupt write
\* for ever: again and again a write call returns a byte count or fails
\* with another error.
SpecWriteInit == WriteInit /\ CodecIdle /\ CipsoIdle /\ QueryIdle
SpecWriteNext ==
  PrintBegin \/ PrintRule \/ WriteCount \/ WriteZero \/ WriteEintr \/ WriteError
\* The kernel-facing operations: apply, clear, CIPSO apply, access query
SpecKernelInit == KernelInit /\ CodecIdle /\ WriteIdle
SpecKernelNext == KernelApply \/ KernelClear \/ KernelCipsoApply \/ HaveAccess
SpecKernel == SpecKernelInit /\ [][SpecKernelNext]_vars

SpecWrite ==
  /\ SpecWriteInit /\ [][SpecWriteNext]_vars
  /\ WF_vars(SpecWriteNext)
  /\ SF_vars(WriteCount \/ WriteZero \/ WriteError)

(***************************************************************************)
(* Properties                                                              *)
(***************************************************************************)
\* The strings interned in a table, and the id of one of them
Interned(h) == { LabelAt(h, i).label : i \in 0..(h.labels_cnt - 1) }
IdOf(h, label) == CHOOSE i \in 0..(h.labels_cnt - 1) : LabelAt(h, i).label = label

\* The bits set in an access code
CodeBits(code) == { b \in {1, 2, 4, 8, 16, 32} : (code \div b) % 2 = 1 }
AllBits == {1, 2, 4, 8, 16, 32}
\* A rule the spec calls modify-style
ModifyStyle(rule) == CodeBits(rule.allow_code) \cup CodeBits(rule.deny_code) # AllBits
\* The six characters of a set of access bits
BitsText(bits) ==
  [i \in 1..6 |-> IF 2 ^ (i - 1) \in bits THEN AccessLower[i] ELSE "-"]

IsPrefix(p, t) == Len(p) <= Len(t) /\ p = SubSeq(t, 1, Len(p))
PadRight(str, n) == str \o [i \in 1..(n - Len(str)) |-> " "]

\* The load record of the k-th rule in serialization order, printed with
\* the access bits given: long layout, short layout
LongRecord(h, e, bits) ==
  LabelAt(h, e.subject_id).label \o << " " >> \o
  LabelAt(h, e.rule.object_id).label \o << " " >> \o BitsText(bits)
ShortRecord(h, e, bits) ==
  PadRight(LabelAt(h, e.subject_id).label, 23) \o << " " >> \o
  PadRight(LabelAt(h, e.rule.object_id).label, 23) \o << " " >> \o
  SubSeq(BitsText(bits), 1, 5)
LoadRecord(h, e, bits, long) ==
  IF long = 1 THEN LongRecord(h, e, bits) ELSE ShortRecord(h, e, bits)

\* The rules of the engine in serialization order
Todo == RulesFrom(handle, 0)
\* The place of the first modify-style rule in that order; 0 when none
FirstModify ==
  IF \E k \in 1..Len(Todo) : ModifyStyle(Todo[k].rule)
    THEN CHOOSE k \in 1..Len(Todo) :
           ModifyStyle(Todo[k].rule) /\ \A j \in 1..(k - 1) : ~ModifyStyle(Todo[j].rule)
    ELSE 0
\* The destination took every byte it was given
NoIoFault(io) == io.fail_at = 0

C1_State ==
  /\ handle.labels_cnt = Len(handle.labels)
  /\ \A i \in 0..(handle.labels_cnt - 1) : LabelAt(handle, i).id = i
  /\ \A i, j \in 0..(handle.labels_cnt - 1) :
       i # j => LabelAt(handle, i).label # LabelAt(handle, j).label
  /\ \A label \in ValidLabels :
       IF label \in Interned(handle)
         THEN /\ label_add(handle, label).lab = IdOf(handle, label)
              /\ label_add(handle, label).handle = handle
         ELSE /\ label_add(handle, label).lab = handle.labels_cnt
              /\ label_add(handle, label).handle.labels_cnt = handle.labels_cnt + 1
              /\ LabelAt(label_add(handle, label).handle, handle.labels_cnt).label = label
  /\ (last.op \in {"add", "add_modify"} /\ last.ret = 0) =>
       /\ last.subject \in Interned(handle) /\ last.object \in Interned(handle)
       /\ LabelAt(handle, IdOf(handle, last.subject)).rules # <<>>
       /\ LabelAt(handle, IdOf(handle, last.subject)).rules[
            Len(LabelAt(handle, IdOf(handle, last.subject)).rules)].object_id
          = IdOf(handle, last.object)

C1_Step ==
  \A i \in 0..(handle.labels_cnt - 1) :
    /\ i < handle'.labels_cnt
    /\ LabelAt(handle', i).label = LabelAt(handle, i).label
    /\ LabelAt(handle', i).id = i

\* C1: after any sequence of add, add_modify and bulk-load calls the ids are
\* dense (labels[id].id = id for every id below labels_cnt, the k-th distinct
\* label has id k - 1), two distinct strings never share an id, interning a
\* string that is in the table yields its id and leaves the table as it is,
\* interning a new valid string yields the next id, and a label keeps its id
\* and string from one call to the next.
C1_InterningIsStableAndDense == []C1_State /\ [][C1_Step]_vars

\* Two labels of one hash bucket are interned and a third label follows
C1_Witness ==
  /\ handle.labels_cnt >= 3
  /\ LUnconfined \in Interned(handle) /\ LCollide \in Interned(handle)
  /\ LabelAt(handle, IdOf(handle, LUnconfined)).next_label = IdOf(handle, LCollide)
  /\ last.op = "add" /\ last.ret = 0

\* C2: when apply reaches a modify-style rule and change-rule is absent it
\* returns -1; what it wrote before are load records of the rules before that
\* rule, in order, on the load descriptor (all of them when no write failed),
\* and nothing is written for the modify rule or any rule after it.
C2_ApplyStopsAtModifyRule ==
  (/\ last.op = "apply" /\ last.load_fd >= 0
   /\ last.kernel.change_open = "ENOENT"
   /\ FirstModify > 0) =>
    /\ last.ret = -1
    /\ last.change_fd < 0
    /\ Len(last.writes) < FirstModify
    /\ \A i \in 1..Len(last.writes) :
         /\ last.writes[i].fd = last.load_fd
         /\ IsPrefix(last.writes[i].bytes,
                     LoadRecord(handle, Todo[i], CodeBits(Todo[i].rule.allow_code),
                                last.use_long))
    /\ (NoIoFault(last.kernel.io) /\ ~(last.use_long = 0 /\ handle.has_long = 1)) =>
         /\ Len(last.writes) = FirstModify - 1
         /\ \A i \in 1..Len(last.writes) :
              last.writes[i].bytes =
                LoadRecord(handle, Todo[i], CodeBits(Todo[i].rule.allow_code),
                           last.use_long)

\* apply wrote the record of a load rule and stopped at the modify rule after it
C2_Witness ==
  /\ last.op = "apply" /\ last.load_fd >= 0
  /\ last.kernel.change_open = "ENOENT"
  /\ FirstModify = 2 /\ Len(Todo) = 2
  /\ last.ret = -1
  /\ Len(last.writes) = 1

\* C3: after any sequence of add, add_modify and bulk-load calls, failed ones
\* included, has_long is 1 if and only if a label of the table is longer than
\* 23 bytes.
C3_HasLongIffLongLabel ==
  (handle.has_long = 1) <=>
    (\E i \in 0..(handle.labels_cnt - 1) : Len(LabelAt(handle, i).label) > 23)

\* C4: when has_long is 1 and the negotiation chose the short interface,
\* apply and clear return -1 and write nothing to load or change-rule.
C4_LongLabelsNeverInShortFormat ==
  (/\ last.op \in {"apply", "clear"}
   /\ last.load_fd >= 0 /\ last.use_long = 0
   /\ handle.has_long = 1) =>
    /\ last.ret = -1
    /\ last.writes = <<>>

\* apply on an engine with a rule on a 24-byte label, the kernel offering load
\* only
C4_Witness ==
  /\ last.op = "apply"
  /\ last.kernel.long_open = "ENOENT" /\ last.kernel.short_open = "ok"
  /\ last.use_long = 0 /\ last.load_fd >= 0
  /\ handle.has_long = 1
  /\ Len(Todo) > 0
  /\ last.ret = -1

\* The rules of an engine as (subject, object, allow bits, deny bits), and a
\* sequence as a multiset
RuleTuples(h) ==
  [k \in 1..Len(RulesFrom(h, 0)) |->
     << LabelAt(h, RulesFrom(h, 0)[k].subject_id).label,
        LabelAt(h, RulesFrom(h, 0)[k].rule.object_id).label,
        CodeBits(RulesFrom(h, 0)[k].rule.allow_code),
        CodeBits(RulesFrom(h, 0)[k].rule.deny_code) >>]
BagOf(seq) ==
  [x \in {seq[i] : i \in 1..Len(seq)} |->
     Cardinality({i \in 1..Len(seq) : seq[i] = x})]

\* C5: an engine built by successful calls, saved and loaded back into a new
\* engine: the load succeeds and the new engine holds the same multiset of
\* (subject, object, allow, deny), also for a deny that overlaps allow.
C5_SaveThenLoadRoundTrip ==
  (last.op = "save" /\ last.ret = 0 /\ all_ok /\ reload.done) =>
    /\ reload.ret = 0
    /\ BagOf(RuleTuples(reload.handle)) = BagOf(RuleTuples(handle))

\* The access bits the letters of a string stand for, in either case
LetterBits(str) ==
  { 2 ^ (i - 1) : i \in { n \in 1..6 : \E j \in 1..Len(str) :
                             str[j] \in {AccessLower[n], AccessUpper[n]} } }
AccessChars ==
  {AccessLower[i] : i \in 1..6} \cup {AccessUpper[i] : i \in 1..6} \cup {"-"}
OnlyAccessChars(str) == \A i \in 1..Len(str) : str[i] \in AccessChars
Positional(str) ==
  Len(str) = 6 /\ \A i \in 1..6 : str[i] \in {AccessLower[i], AccessUpper[i], "-"}
Lower(str) ==
  [i \in 1..Len(str) |->
     IF \E n \in 1..6 : str[i] = AccessUpper[n]
       THEN AccessLower[CHOOSE n \in 1..6 : str[i] = AccessUpper[n]]
       ELSE str[i]]

\* C6 as stated: format(parse(s)) is s in lower case for every string of six
\* access characters, and parse fails on a string with any other character.
C6_FormatParseIsLowercase ==
  /\ (acc_pc # "in" /\ Len(acc_in) = 6 /\ OnlyAccessChars(acc_in)) => acc_code >= 0
  /\ (acc_pc = "formatted" /\ Len(acc_in) = 6 /\ OnlyAccessChars(acc_in)) =>
       acc_out = Lower(acc_in)
  /\ (acc_pc # "in" /\ ~OnlyAccessChars(acc_in)) => acc_code = -1

\* C6 as amended: format(parse(s)) is s in lower case for every string of six
\* characters whose i-th character is the i-th letter of rwxatl, in either
\* case, or a dash; for any string of access characters it is the six
\* characters of the set of letters that occur in s; parse fails on a string
\* with any other character.
C6_FormatParseIsCanonical ==
  /\ (acc_pc # "in" /\ OnlyAccessChars(acc_in)) =>
       acc_code >= 0 /\ CodeBits(acc_code) = LetterBits(acc_in)
  /\ (acc_pc = "formatted") => acc_out = BitsText(LetterBits(acc_in))
  /\ (acc_pc = "formatted" /\ Positional(acc_in)) => acc_out = Lower(acc_in)
  /\ (acc_pc # "in" /\ ~OnlyAccessChars(acc_in)) => acc_code = -1

\* A positional string with an upper-case letter has been parsed and formatted
C6_Witness ==
  /\ acc_pc = "formatted"
  /\ Positional(acc_in)
  /\ \E i \in 1..6 : acc_in[i] = AccessUpper[i]
  /\ \E i \in 1..6 : acc_in[i] = "-"
  /\ acc_out = Lower(acc_in)

\* The last rule of the list of the subject of the last call
LastAdded ==
  LabelAt(handle, IdOf(handle, last.subject)).rules[
    Len(LabelAt(handle, IdOf(handle, last.subject)).rules)]
\* The text save and apply write for a load record
Emitted(h, e, bits) ==
  IF last.op = "save" THEN LongRecord(h, e, bits) \o << "\n" >>
  ELSE LoadRecord(h, e, bits, last.use_long)

\* C7: a rule made by add has deny = the complement of allow, so allow | deny
\* is all bits, and save and apply emit every such rule on the load
\* descriptor as subject, object and the six access characters (save: in
\* long layout with a newline after it).
C7_PlainAddIsLoadStyle ==
  /\ (last.op = "add" /\ last.ret = 0) =>
       /\ CodeBits(LastAdded.allow_code) = LetterBits(last.allow)
       /\ CodeBits(LastAdded.deny_code) = AllBits \ LetterBits(last.allow)
       /\ ~ModifyStyle(LastAdded)
  /\ last.op \in {"save", "apply"} =>
       /\ Len(last.writes) <= Len(Todo)
       /\ last.ret = 0 => Len(last.writes) = Len(Todo)
       /\ \A i \in 1..Len(last.writes) :
            CodeBits(Todo[i].rule.deny_code) = AllBits \ CodeBits(Todo[i].rule.allow_code) =>
              /\ last.writes[i].fd = last.load_fd
              /\ IsPrefix(last.writes[i].bytes,
                          Emitted(handle, Todo[i], CodeBits(Todo[i].rule.allow_code)))
              /\ (last.ret = 0 \/ i < Len(last.writes)) =>
                   last.writes[i].bytes =
                     Emitted(handle, Todo[i], CodeBits(Todo[i].rule.allow_code))

\* add("Unconfined", "Unconfined", "rwxat") on a new engine, then save
C7_Witness ==
  /\ last.op = "save" /\ last.ret = 0
  /\ handle = smack_accesses_add(smack_accesses_new, LUnconfined, LUnconfined,
                                 << "r", "w", "x", "a", "t" >>).handle
  /\ last.writes =
       << [fd |-> DestFd,
           bytes |-> LUnconfined \o << " " >> \o LUnconfined \o
                     << " ", "r", "w", "x", "a", "t", "-", "\n" >>] >>

\* C8: a CIPSO line of a valid label, a level in 0..255 and n categories in
\* 0..63 is accepted for every n and appends one mapping with that label and
\* level, min(n, 240) categories equal to the first tokens in order, every
\* store inside the category storage, and level, count and link intact.
C8_CipsoLineStoredWithinBounds ==
  (cipso_last.op = "add_from_file" /\ cipso_last.good # NoLine) =>
    /\ cipso_last.ret = 0
    /\ Len(cipso.mappings) = cipso_last.before + 1
    /\ cipso.mappings[Len(cipso.mappings)].label = cipso_last.good.label
    /\ cipso.mappings[Len(cipso.mappings)].level = cipso_last.good.level
    /\ cipso.mappings[Len(cipso.mappings)].ncats = Min(cipso_last.good.n, 240)
    /\ \A k \in 1..Min(cipso_last.good.n, 240) :
         /\ k <= Len(cipso.mappings[Len(cipso.mappings)].cats)
         /\ cipso.mappings[Len(cipso.mappings)].cats[k] =
              (IF cipso_last.good.zero THEN 0 ELSE CatValue(k))
    /\ cipso.mappings[Len(cipso.mappings)].outside = 0
    /\ cipso.mappings[Len(cipso.mappings)].beyond = 0
    /\ cipso.mappings[Len(cipso.mappings)].next_ok
    /\ cipso.heap_ok

\* The lines of a text that ends with a newline, each with its newline
NewlinesOf(text) == { i \in 1..Len(text) : text[i] = "\n" }
LineEnd(text, k) ==
  CHOOSE i \in NewlinesOf(text) :
    Cardinality({ j \in NewlinesOf(text) : j < i }) = k - 1
LinesOf(text) ==
  [k \in 1..Cardinality(NewlinesOf(text)) |->
     SubSeq(text, IF k = 1 THEN 1 ELSE LineEnd(text, k - 1) + 1, LineEnd(text, k))]

\* The fields of a line, and a line the loader is to accept: 3 or 4 fields, valid
\* labels and access strings
FieldsOf(line) == Tokens(line, 1, Len(line))
ValidLine(line) ==
  /\ Len(FieldsOf(line)) \in {3, 4}
  /\ get_label(FieldsOf(line)[1]).ret >= 0
  /\ get_label(FieldsOf(line)[2]).ret >= 0
  /\ \A k \in 3..Len(FieldsOf(line)) : OnlyAccessChars(FieldsOf(line)[k])
Blank(line) == line = << "\n" >>
\* The rule of a valid line
LineTuple(line) ==
  << FieldsOf(line)[1], FieldsOf(line)[2], LetterBits(FieldsOf(line)[3]),
     IF Len(FieldsOf(line)) = 4 THEN LetterBits(FieldsOf(line)[4])
     ELSE AllBits \ LetterBits(FieldsOf(line)[3]) >>
\* The first line that is neither blank nor valid; 0 when there is none
FirstBadLine(lines) ==
  IF \E k \in 1..Len(lines) : ~Blank(lines[k]) /\ ~ValidLine(lines[k])
    THEN CHOOSE k \in 1..Len(lines) :
           /\ ~Blank(lines[k]) /\ ~ValidLine(lines[k])
           /\ \A j \in 1..(k - 1) : Blank(lines[j]) \/ ValidLine(lines[j])
    ELSE 0
\* The rules of the valid lines before the first bad one, in order
RulesBefore(lines, bad) ==
  LET upto == IF bad = 0 THEN Len(lines) ELSE bad - 1
      acc[k \in 0..upto] ==
        IF k = 0 THEN <<>>
        ELSE IF Blank(lines[k]) THEN acc[k - 1]
        ELSE Append(acc[k - 1], LineTuple(lines[k]))
  IN  acc[upto]

C9_Step ==
  /\ last'.op = "add_from_file" =>
       /\ last'.ret = (IF FirstBadLine(LinesOf(Files[last'.file])) = 0 THEN 0 ELSE -1)
       /\ BagOf(RuleTuples(handle')) =
            BagOf(RuleTuples(handle) \o
                  RulesBefore(LinesOf(Files[last'.file]),
                              FirstBadLine(LinesOf(Files[last'.file]))))
  /\ (last'.op \in {"add", "add_modify"} /\ last'.ret # 0) =>
       RuleTuples(handle') = RuleTuples(handle)

\* C9: bulk ingestion skips the lines that are a newline alone, accepts the
\* lines of 3 or 4 fields, and at the first line with another field count, an
\* invalid label or an invalid access string returns -1 with exactly the
\* rules of the valid lines before it added; a failed add or add_modify adds
\* no rule.
C9_BulkLoadStopsAtFirstBadLine == [][C9_Step]_vars

\* C10: clear writes one load record per rule, in the order of apply, with
\* an access field of dashes whatever the rule holds, writes nothing to
\* change-rule and returns 0 also when change-rule is absent.
C10_ClearWritesDashesToLoad ==
  (last.op = "clear" /\ last.load_fd >= 0
   /\ last.kernel.change_open \in {"ok", "ENOENT"}
   /\ ~(last.use_long = 0 /\ handle.has_long = 1)) =>
    /\ Len(last.writes) <= Len(Todo)
    /\ \A i \in 1..Len(last.writes) :
         /\ last.writes[i].fd = last.load_fd
         /\ IsPrefix(last.writes[i].bytes,
                     LoadRecord(handle, Todo[i], {}, last.use_long))
    /\ NoIoFault(last.kernel.io) =>
         /\ last.ret = 0
         /\ Len(last.writes) = Len(Todo)
         /\ \A i \in 1..Len(last.writes) :
              last.writes[i].bytes = LoadRecord(handle, Todo[i], {}, last.use_long)

\* clear of an engine that holds a modify-style rule, change-rule absent
C10_Witness ==
  /\ last.op = "clear" /\ last.ret = 0
  /\ last.kernel.change_open = "ENOENT"
  /\ FirstModify > 0
  /\ Len(Todo) = 2 /\ Len(last.writes) = 2
  /\ \E i \in 1..2 : CodeBits(Todo[i].rule.allow_code) # {}

\* What apply returns and writes on the engine when change-rule opens as c
ApplyWith(c) ==
  smack_accesses_apply(handle, [last.kernel EXCEPT !.change_open = c], FirstFd)

\* C11 as stated: apply opens change-rule only when the engine holds a
\* modify-style rule, and without such a rule what it returns and writes is
\* the same whether change-rule opens, is absent or fails to open with
\* another error.
C11_ChangeRuleIgnoredWithoutModifyRule ==
  (last.op = "apply" /\ last.load_fd >= 0 /\ FirstModify = 0) =>
    /\ last.change_fd < 0
    /\ \A c \in {"ok", "ENOENT", "EACCES"} :
         ApplyWith(c).ret = last.ret /\ ApplyWith(c).writes = last.writes

\* C11 as amended: apply always tries to open change-rule; for an engine
\* with no modify-style rule what it returns and writes is the same whether
\* change-rule opens or is absent (not found), and when the open fails with
\* another error apply returns -1 and writes nothing.
C11_ChangeRuleAbsenceIgnoredWithoutModifyRule ==
  (last.op = "apply" /\ last.load_fd >= 0) =>
    /\ last.kernel.change_open = "ok" => last.change_fd >= 0
    /\ last.kernel.change_open # "ok" => last.change_fd < 0
    /\ last.kernel.change_open = "EACCES" => last.ret = -1 /\ last.writes = <<>>
    /\ (FirstModify = 0 /\ last.kernel.change_open \in {"ok", "ENOENT"}) =>
         /\ \A c \in {"ok", "ENOENT"} :
              ApplyWith(c).ret = last.ret /\ ApplyWith(c).writes = last.writes
         /\ \A i \in 1..Len(last.writes) : last.writes[i].fd = last.load_fd
         /\ (NoIoFault(last.kernel.io) /\ ~(last.use_long = 0 /\ handle.has_long = 1)) =>
              last.ret = 0 /\ Len(last.writes) = Len(Todo)

\* apply wrote the rules of an engine without modify-style rules, change-rule
\* being absent
C11_Witness ==
  /\ last.op = "apply" /\ last.ret = 0
  /\ last.kernel.change_open = "ENOENT"
  /\ FirstModify = 0
  /\ Len(Todo) = 2 /\ Len(last.writes) = 2

\* The load records of the rules apply and clear print, as the layout chosen
\* prints them
PrintedBits(e) ==
  IF last.op = "clear" THEN {} ELSE CodeBits(e.rule.allow_code)
ModifyRecord(h, e) ==
  LabelAt(h, e.subject_id).label \o << " " >> \o
  LabelAt(h, e.rule.object_id).label \o << " " >>
  \o BitsText(CodeBits(e.rule.allow_code)) \o << " " >>
  \o BitsText(CodeBits(e.rule.deny_code))

\* C13: load2 is opened first; load is opened, and the short layout chosen,
\* only when load2 is not found; another failure of the load2 open, or a
\* failure of the load open, fails the call without a write; all load
\* records of one apply or clear call have the layout chosen.
C13_FormatNegotiation ==
  last.op \in {"apply", "clear"} =>
    /\ last.kernel.long_open = "ok" => last.load_fd >= 0 /\ last.use_long = 1
    /\ (last.kernel.long_open = "ENOENT" /\ last.kernel.short_open = "ok") =>
         last.load_fd >= 0 /\ last.use_long = 0
    /\ (last.kernel.long_open \notin {"ok", "ENOENT"}
        \/ (last.kernel.long_open = "ENOENT" /\ last.kernel.short_open # "ok")) =>
         last.load_fd < 0 /\ last.ret = -1 /\ last.writes = <<>>
    /\ \A i \in 1..Len(last.writes) :
         last.writes[i].fd = last.load_fd =>
           IsPrefix(last.writes[i].bytes,
                    LoadRecord(handle, Todo[i], PrintedBits(Todo[i]), last.use_long))

\* apply wrote two records in the short layout after load2 was not found
C13_Witness ==
  /\ last.op = "apply" /\ last.ret = 0
  /\ last.kernel.long_open = "ENOENT" /\ last.kernel.short_open = "ok"
  /\ last.use_long = 0
  /\ Len(last.writes) = 2
  /\ \A i \in 1..2 : Len(last.writes[i].bytes) = 53

\* The record save, apply and clear owe the destination for the i-th rule,
\* and the descriptor it goes to
OwedModify(i) == last.op # "clear" /\ ModifyStyle(Todo[i].rule)
OwedRecord(i) ==
  (IF OwedModify(i) THEN ModifyRecord(handle, Todo[i])
   ELSE LoadRecord(handle, Todo[i], PrintedBits(Todo[i]), last.use_long))
  \o (IF last.op = "save" THEN << "\n" >> ELSE <<>>)
OwedFd(i) == IF OwedModify(i) THEN last.change_fd ELSE last.load_fd
\* The first rule that cannot be written for want of change-rule; one past
\* the last rule when there is none
Stop ==
  IF \E k \in 1..Len(Todo) : OwedModify(k) /\ last.change_fd < 0
    THEN CHOOSE k \in 1..Len(Todo) :
           /\ OwedModify(k) /\ last.change_fd < 0
           /\ \A j \in 1..(k - 1) : ~(OwedModify(j) /\ last.change_fd < 0)
    ELSE Len(Todo) + 1
\* The write calls the records 1..k take on a destination that accepts
\* chunk bytes a call and interrupts the first call of each record
RECURSIVE CallsUpTo(_, _)
CallsUpTo(k, io) ==
  IF k = 0 THEN 0
  ELSE CallsUpTo(k - 1, io) + io.eintr
       + (IF io.chunk = 0 THEN 1
          ELSE (Len(OwedRecord(k)) + io.chunk - 1) \div io.chunk)
\* The record in which the failing write call falls; 0 when no call fails
FailedRecord(io) ==
  IF io.fail_at > 0 /\ CallsUpTo(Stop - 1, io) >= io.fail_at
    THEN CHOOSE k \in 1..(Stop - 1) :
           CallsUpTo(k, io) >= io.fail_at /\ CallsUpTo(k - 1, io) < io.fail_at
    ELSE 0
\* The bytes of record k accepted before the failing call
AcceptedBefore(k, io) ==
  IF io.fail_at - 1 - CallsUpTo(k - 1, io) - io.eintr <= 0 THEN 0
  ELSE Min(Len(OwedRecord(k)),
           io.chunk * (io.fail_at - 1 - CallsUpTo(k - 1, io) - io.eintr))
\* save, apply or clear reached the loop over the rules
Printing ==
  /\ last.op \in {"save", "apply", "clear"}
  /\ last.load_fd >= 0
  /\ ~(last.op # "save" /\ last.kernel.change_open = "EACCES")
  /\ ~(last.use_long = 0 /\ handle.has_long = 1)

\* C14: whatever byte counts the write calls return and wherever a call is
\* interrupted, the bytes a destination accepts for a record are the bytes
\* of that record (with a newline after it for save), each once and in
\* order, and a record is complete before the next is begun; a write error
\* other than an interruption fails the call at that write, nothing is
\* written after it and what was written before it stays written.
C14_WriteLoopDeliversEachRecordOnce ==
  Printing =>
    /\ \A i \in 1..Len(last.writes) :
         /\ last.writes[i].fd = OwedFd(i)
         /\ IsPrefix(last.writes[i].bytes, OwedRecord(i))
         /\ i < Len(last.writes) => last.writes[i].bytes = OwedRecord(i)
    /\ FailedRecord(last.kernel.io) = 0 =>
         /\ Len(last.writes) = Stop - 1
         /\ \A i \in 1..(Stop - 1) : last.writes[i].bytes = OwedRecord(i)
         /\ last.ret = (IF Stop = Len(Todo) + 1 THEN 0 ELSE -1)
    /\ FailedRecord(last.kernel.io) > 0 =>
         /\ last.ret = -1
         /\ \A i \in 1..(FailedRecord(last.kernel.io) - 1) :
              last.writes[i].bytes = OwedRecord(i)
         /\ IF AcceptedBefore(FailedRecord(last.kernel.io), last.kernel.io) = 0
              THEN Len(last.writes) = FailedRecord(last.kernel.io) - 1
              ELSE /\ Len(last.writes) = FailedRecord(last.kernel.io)
                   /\ Len(last.writes[Len(last.writes)].bytes)
                        = AcceptedBefore(FailedRecord(last.kernel.io), last.kernel.io)

\* apply delivered two whole records over writes of 7 bytes with the first
\* call of each record interrupted
C14_Witness ==
  /\ last.op = "apply" /\ last.ret = 0
  /\ last.kernel.io = PartialIo
  /\ Len(last.writes) = 2
  /\ \A i \in 1..2 : last.writes[i].bytes = OwedRecord(i)

\* apply stopped inside its first record at a failing write, part of the
\* record accepted
C14_FailureWitness ==
  /\ last.op = "apply" /\ last.ret = -1
  /\ last.kernel.io = PartialFailingIo
  /\ Len(Todo) = 2 /\ Len(last.writes) = 1
  /\ Len(last.writes[1].bytes) = 21

\* The rules of the label with id x, none when the id is not in use yet
RulesOf(h, x) == IF x < h.labels_cnt THEN LabelAt(h, x).rules ELSE <<>>
\* The place before the first rule of label x in the output
RECURSIVE Offset(_, _)
Offset(h, x) == IF x = 0 THEN 0 ELSE Offset(h, x - 1) + Len(RulesOf(h, x - 1))
\* The record of rule r of subject x
RecordOf(x, r) ==
  (IF last.op # "clear" /\ ModifyStyle(r)
     THEN ModifyRecord(handle, [subject_id |-> x, rule |-> r])
   ELSE LoadRecord(handle, [subject_id |-> x, rule |-> r],
                   IF last.op = "clear" THEN {} ELSE CodeBits(r.allow_code),
                   last.use_long))
  \o (IF last.op = "save" THEN << "\n" >> ELSE <<>>)

C15_State ==
  (last.op \in {"save", "apply"} /\ last.ret = 0) =>
    /\ Len(last.writes) = Offset(handle, handle.labels_cnt)
    /\ \A x \in 0..(handle.labels_cnt - 1) :
         \A k \in 1..Len(RulesOf(handle, x)) :
           last.writes[Offset(handle, x) + k].bytes
             = RecordOf(x, RulesOf(handle, x)[k])
C15_Step ==
  /\ \A x \in 0..(handle.labels_cnt - 1) :
       /\ LabelAt(handle', x).label = LabelAt(handle, x).label
       /\ IsPrefix(RulesOf(handle, x), RulesOf(handle', x))
  /\ (last'.op = "add" /\ last'.ret = 0 /\ calls' = calls + 1) =>
       \A x \in 0..(handle'.labels_cnt - 1) :
         RulesOf(handle', x) =
           IF x = IdOf(handle', last'.subject)
             THEN Append(RulesOf(handle, x),
                         [allow_code |-> str_to_access_code(last'.allow),
                          deny_code  |-> 63 - str_to_access_code(last'.allow),
                          object_id  |-> IdOf(handle', last'.object)])
             ELSE RulesOf(handle, x)

\* C15: a successful save or apply writes one record for every stored rule,
\* the rules of one subject in the order they were added; every successful
\* add puts one more rule at the end of its subject's list whatever the list
\* holds already, and no call merges, reorders or drops a stored rule.
C15_OneRecordPerRuleInInsertionOrder == []C15_State /\ [][C15_Step]_vars

\* The same rule was added twice and save wrote it as two equal records
C15_Witness ==
  /\ last.op = "save" /\ last.ret = 0
  /\ handle.labels_cnt = 1
  /\ Len(RulesOf(handle, 0)) = 2
  /\ RulesOf(handle, 0)[1] = RulesOf(handle, 0)[2]
  /\ Len(last.writes) = 2
  /\ last.writes[1].bytes = last.writes[2].bytes

\* Two rules of one subject and one object
SamePair(i, j) ==
  /\ Todo[i].subject_id = Todo[j].subject_id
  /\ Todo[i].rule.object_id = Todo[j].rule.object_id
\* The access characters at the end of a record, n of them
AccessField(bytes, n) == SubSeq(bytes, Len(bytes) - n + 1, Len(bytes))
\* apply wrote every rule and all of them are load-style
AppliedLoadRules ==
  /\ last.op = "apply" /\ last.ret = 0
  /\ \A i \in 1..Len(Todo) : ~ModifyStyle(Todo[i].rule)

\* C18 as stated: every three-field load record carries the whole allow
\* code in the long and in the short layout, so two rules of one subject
\* and object whose allow codes differ (in the lock bit alone, too) are
\* written as different records in either layout.
C18_LoadRecordCarriesWholeAllowCode ==
  AppliedLoadRules =>
    /\ \A i \in 1..Len(Todo) :
         AccessField(last.writes[i].bytes, 6)
           = BitsText(CodeBits(Todo[i].rule.allow_code))
    /\ \A i, j \in 1..Len(Todo) :
         (SamePair(i, j) /\ Todo[i].rule.allow_code # Todo[j].rule.allow_code)
           => last.writes[i].bytes # last.writes[j].bytes

\* C18 as amended: a load record in the long layout ends in the six access
\* characters of the allow code; a load record in the short layout is 53
\* characters long and ends in the first five of them (r, w, x, a, t), the
\* lock bit not being written; so two rules of one subject and object are
\* written as equal records exactly when their allow codes are equal (long
\* layout) or equal but for the lock bit (short layout).
C18_ShortLoadRecordDropsLockBit ==
  AppliedLoadRules =>
    /\ \A i \in 1..Len(Todo) :
         IF last.use_long = 1
           THEN AccessField(last.writes[i].bytes, 6)
                  = BitsText(CodeBits(Todo[i].rule.allow_code))
           ELSE /\ Len(last.writes[i].bytes) = 53
                /\ last.writes[i].bytes[48] = " "
                /\ AccessField(last.writes[i].bytes, 5)
                     = SubSeq(BitsText(CodeBits(Todo[i].rule.allow_code)), 1, 5)
    /\ \A i, j \in 1..Len(Todo) :
         SamePair(i, j) =>
           ((last.writes[i].bytes = last.writes[j].bytes)
              <=> IF last.use_long = 1
                    THEN Todo[i].rule.allow_code = Todo[j].rule.allow_code
                    ELSE Todo[i].rule.allow_code % 32 = Todo[j].rule.allow_code % 32)

\* apply wrote two rules that differ in the lock bit alone as two equal
\* records of the short layout
C18_Witness ==
  /\ AppliedLoadRules /\ last.use_long = 0
  /\ Len(Todo) = 2 /\ SamePair(1, 2)
  /\ Todo[1].rule.allow_code = 31 /\ Todo[2].rule.allow_code = 63
  /\ last.writes[1].bytes = last.writes[2].bytes

\* The labels of the i-th rule
SubjectOf(i) == LabelAt(handle, Todo[i].subject_id).label
ObjectOf(i) == LabelAt(handle, Todo[i].rule.object_id).label
\* The i-th write took its whole record
WholeWrite(i) == i < Len(last.writes) \/ last.ret = 0

\* C19: in every reachable engine state a stored rule whose subject or
\* object label is longer than 23 bytes implies has_long; so an apply or
\* clear in the short layout that writes a record serializes an engine whose
\* rules have no label longer than 23 bytes, and every load record it writes
\* has its subject in columns 1-23 and its object in columns 25-47, each
\* followed by a space.
C19_ShortLayoutHasNoLongLabel ==
  /\ \A i \in 1..Len(Todo) :
       (Len(SubjectOf(i)) > 23 \/ Len(ObjectOf(i)) > 23) => handle.has_long = 1
  /\ (last.op \in {"apply", "clear"} /\ last.use_long = 0 /\ Len(last.writes) >= 1) =>
       /\ \A i \in 1..Len(Todo) : Len(SubjectOf(i)) <= 23 /\ Len(ObjectOf(i)) <= 23
       /\ \A i \in 1..Len(last.writes) :
            (last.writes[i].fd = last.load_fd /\ WholeWrite(i)) =>
              /\ Len(last.writes[i].bytes) = 53
              /\ SubSeq(last.writes[i].bytes, 1, 24)
                   = SubjectOf(i) \o [k \in 1..(24 - Len(SubjectOf(i))) |-> " "]
              /\ SubSeq(last.writes[i].bytes, 25, 48)
                   = ObjectOf(i) \o [k \in 1..(24 - Len(ObjectOf(i))) |-> " "]

\* apply wrote, in the short layout, a rule whose object is 23 bytes long
C19_Witness ==
  /\ last.op = "apply" /\ last.use_long = 0 /\ last.ret = 0
  /\ Len(last.writes) >= 1
  /\ \E i \in 1..Len(Todo) : Len(ObjectOf(i)) = 23 /\ Len(SubjectOf(i)) < 23

\* A write call of the last smack_cipso_apply that took less than its record
IncompleteWrite(w) == w.count # Len(w.buf)

\* C16: CIPSO apply makes one write call for each mapping, in order, and
\* never repeats one; when a write accepts fewer bytes than the record, is
\* interrupted or fails, apply returns failure and no later mapping is
\* written.
C16_CipsoApplyFailsOnIncompleteWrite ==
  (cipso_applied.done /\ cipso_applied.defined) =>
    /\ Len(cipso_applied.writes) <= Len(cipso.mappings)
    /\ \A i \in 1..Len(cipso_applied.writes) :
         /\ cipso_applied.writes[i].buf
              = CipsoRecord(cipso.mappings[i], cipso_applied.use_long)
         /\ IncompleteWrite(cipso_applied.writes[i]) =>
              cipso_applied.ret = -1 /\ i = Len(cipso_applied.writes)
    /\ cipso_applied.ret = 0 => Len(cipso_applied.writes) = Len(cipso.mappings)

\* C17: after any CIPSO ingestions, failed ones included, the long-label
\* flag of the store is set exactly when a stored mapping has a label longer
\* than 23 bytes; so apply against a kernel that offers only cipso fails
\* before any write exactly when a stored mapping has such a label.
C17_CipsoHasLongIffStoredLongLabel ==
  /\ cipso.has_long = 1 <=>
       \E i \in 1..Len(cipso.mappings) : Len(cipso.mappings[i].label) > 23
  /\ (cipso_applied.done /\ cipso_applied.defined /\ cipso_applied.fd >= 0
      /\ cipso_applied.use_long = 0 /\ cipso_applied.kernel.io = PerfectIo) =>
       (cipso_applied.ret = -1 <=>
          \E i \in 1..Len(cipso.mappings) : Len(cipso.mappings[i].label) > 23)

\* The two strings interned in the table whenever it holds more than
\* DICT_HASH_SIZE labels, at the ids 0 and DICT_HASH_SIZE
KnownLabels == {TableLabel(0), TableLabel(4096)}
KnownInterned(h) ==
  /\ h.labels_cnt > 4096
  /\ LabelAt(h, 0).label = TableLabel(0) /\ LabelAt(h, 0).id = 0
  /\ LabelAt(h, 4096).label = TableLabel(4096) /\ LabelAt(h, 4096).id = 4096
\* The last call was add of the rule (first known label, second known
\* label, rwxat) and it left the table with 65,536 labels: a call on two
\* interned labels interns nothing, so the table was full before it
AddOfKnownOnFull ==
  /\ last.op = "add" /\ handle.labels_cnt = 65536
  /\ KnownInterned(handle)
  /\ last.subject = TableLabel(0) /\ last.object = TableLabel(4096)
  /\ last.allow = << "r", "w", "x", "a", "t" >>

C12_Step ==
  (calls' = calls + 1 /\ last'.op = "add") =>
    /\ KnownInterned(handle) /\ KnownInterned(handle')
    /\ handle.labels_cnt = 65536 =>
         last'.ret = -1 /\ handle' = handle
    /\ (handle.labels_cnt = 65535 /\ last'.subject \notin KnownLabels) =>
         /\ last'.ret = -1
         /\ handle'.labels_cnt = 65536
         /\ LabelAt(handle', 65535).label = last'.subject
         /\ LabelAt(handle', 65535).id = 65535
         /\ LabelAt(handle', 65535).rules = <<>>
         /\ \A x \in {0, 4096} : LabelAt(handle', x).rules = LabelAt(handle, x).rules
    /\ (handle.labels_cnt = 65535 /\ last'.subject \in KnownLabels) =>
         /\ last'.ret = (IF OnlyAccessChars(last'.allow) THEN 0 ELSE -1)
         /\ IF last'.object \in KnownLabels
              THEN handle'.labels_cnt = 65535
              ELSE /\ handle'.labels_cnt = 65536
                   /\ LabelAt(handle', 65535).label = last'.object
                   /\ LabelAt(handle', 65535).id = 65535
         /\ last'.ret = 0 =>
              /\ Len(LabelAt(handle', 0).rules) = Len(LabelAt(handle, 0).rules) + 1
              /\ LabelAt(handle', 0).rules[Len(LabelAt(handle', 0).rules)].object_id
                   = (IF last'.object \in KnownLabels THEN 4096 ELSE 65535)

C20_PrintReturns == <>(wr.pc = "done")

\* The last write call made no progress: it was interrupted or took 0 bytes
NoProgress ==
  wr.res.kind = "eintr" \/ (wr.res.kind = "count" /\ wr.res.n = 0)

\* C20 as amended: the call returns when again and again a write call
\* returns a positive byte count or an error other than an interruption; a
\* destination whose write returns 0 or is interrupted for ever keeps the
\* call in its write loop.
C20_PrintReturnsOnProgress == ([]<>(~NoProgress)) => <>(wr.pc = "done")

\* A call returned 0 after writing two records through writes that were
\* interrupted and writes that took no byte
C20_Witness ==
  /\ wr.pc = "done" /\ wr.ret = 0
  /\ wr.zeros /\ wr.eintrs
  /\ wr.k = 3 /\ Len(Todo) = 2

\* The times fd stands in a sequence of descriptors
TimesIn(fd, seq) == Cardinality({ i \in 1..Len(seq) : seq[i] = fd })
\* Every descriptor opened was closed once, and nothing else was closed
ClosedOnce(opened, closed) ==
  /\ \A i \in 1..Len(opened) : TimesIn(opened[i], closed) = 1
  /\ \A i \in 1..Len(closed) : TimesIn(closed[i], opened) = 1

\* C21: every descriptor a kernel-facing operation (apply, clear, CIPSO
\* apply, access query) opened is closed exactly once before the operation
\* returns, when it succeeds and on every failure, the failure for a long
\* label on a short-only kernel and for a malformed access string included.
C21_EveryDescriptorClosedOnce ==
  /\ last.op \in {"apply", "clear"} =>
       ClosedOnce(err_out(last.load_fd, last.change_fd), last.closed)
  /\ (cipso_applied.done /\ cipso_applied.defined) =>
       ClosedOnce(IF cipso_applied.fd >= 0 THEN << cipso_applied.fd >> ELSE <<>>,
                  IF cipso_applied.fd >= 0 /\ cipso_applied.closed
                    THEN << cipso_applied.fd >> ELSE <<>>)
  /\ query.op = "have_access" => ClosedOnce(query.opened, query.closed)

=============================================================================
